---- MODULE Spec2Model ----
(***************************************************************************)
(* A model of pyobcomp's Comparer (src/src/pyobcomp/comparer.py): the      *)
(* recursive comparison of two plain-data values under a rule set, the     *)
(* resolution of the rule of a field path, and the pattern matcher.        *)
(*                                                                         *)
(* Strings that the code takes apart (field paths, rule keys) are          *)
(* sequences of one-character strings.  Numbers are exact integers: an     *)
(* int and a float of the same magnitude differ in their type tag only,    *)
(* and the rounding of binary floating point is not modelled.              *)
(***************************************************************************)
EXTENDS Integers, Sequences, FiniteSets, TLC

VARIABLES
    tolerances,       \* Comparer.tolerances: insertion-ordered <<[key, config]>>
    normalize_types,  \* Comparer.options.normalize_types
    hashOrder,        \* the order in which this process iterates a set of keys
    expected,         \* first argument of the latest compare call
    actual,           \* second argument of the latest compare call
    result,           \* what the latest compare call produced
    pc,               \* "idle" before any call, "done" after a call returned
    mPattern,         \* pattern argument of _path_matches_pattern
    mPath,            \* path argument of _path_matches_pattern / _get_field_config
    mMatched,         \* result of the latest _path_matches_pattern call
    mConfig,          \* result of the latest _get_field_config call
    calls,            \* the compare calls made so far: <<[expected, actual, result]>>
    filterCall,       \* the latest call of filter: its argument and what it returned
    tableCall,        \* the latest call of format_table: its object, argument and output
    frames,           \* the compare calls in progress, each with its local variables
    made,             \* the latest construction of a FieldSettings or a FieldConfig
    logging,          \* Comparer.options.logging
    records,          \* what the latest call wrote to the logger
    logged_profiles,  \* models._logged_profiles: the hashes, oldest first
    logger_level      \* the effective level of the logger 'pyobcomp.comparison'

vars == <<tolerances, normalize_types, hashOrder, expected, actual, result, pc,
          mPattern, mPath, mMatched, mConfig, calls, filterCall, tableCall,
          frames, made, logging, records, logged_profiles, logger_level>>

cmpVars == <<tolerances, normalize_types, hashOrder, expected, actual, result, pc,
             calls, filterCall, tableCall, frames, made, logging, records,
             logged_profiles, logger_level>>

----------------------------------------------------------------------------
(* Strings as sequences of characters *)

BS == "\\"

\* every character a path or a key of the model can hold
Chars == {"a", "b", ".", "*", "[", "]", "0", "1", "2", "3",
          "l", "e", "n", "g", "t", "h", "r", "o"}

RECURSIVE SeqsUpTo(_, _)
SeqsUpTo(S, n) ==
    IF n = 0 THEN {<<>>}
    ELSE LET shorter == SeqsUpTo(S, n - 1)
         IN  shorter \cup {Append(s, c) : s \in {t \in shorter : Len(t) = n - 1}, c \in S}

----------------------------------------------------------------------------
(* _path_matches_pattern: the key is rewritten into a regular expression   *)
(* and handed to re.match                                                  *)

\* pattern.replace('.', r'\.')
RECURSIVE EscapeDots(_)
EscapeDots(p) ==
    IF p = <<>> THEN <<>>
    ELSE (IF Head(p) = "." THEN <<BS, ".">> ELSE <<Head(p)>>) \o EscapeDots(Tail(p))

\* a faulty variant: the rewriting of an escaped dot and a star into '.*' is left out
ReplaceEscStarNone(s) == s

\* regex_pattern.replace(r'\.*', '.*'): leftmost, non-overlapping
RECURSIVE ReplaceEscStar(_)
ReplaceEscStar(s) ==
    IF s = <<>> THEN <<>>
    ELSE IF Len(s) >= 3 /\ s[1] = BS /\ s[2] = "." /\ s[3] = "*"
         THEN <<".", "*">> \o ReplaceEscStar(SubSeq(s, 4, Len(s)))
         ELSE <<Head(s)>> \o ReplaceEscStar(Tail(s))

\* re's parser reading a character set from position j (just after '[' when
\* first): a ']' closes the set unless it is its first character
RECURSIVE ReParseSet(_, _, _, _)
ReParseSet(s, j, first, acc) ==
    IF j > Len(s) THEN [ok |-> FALSE, set |-> {}, next |-> j]
    ELSE IF s[j] = "]" /\ ~first THEN [ok |-> TRUE, set |-> acc, next |-> j + 1]
    ELSE IF s[j] = BS
         THEN IF j + 1 > Len(s) THEN [ok |-> FALSE, set |-> {}, next |-> j]
              ELSE ReParseSet(s, j + 2, FALSE, acc \cup {s[j + 1]})
         ELSE ReParseSet(s, j + 1, FALSE, acc \cup {s[j]})

\* re's parser: a sequence of items [set, star], or ok = FALSE where re.compile
\* raises re.error (nothing to repeat, multiple repeat, unterminated set)
RECURSIVE ReParse(_, _, _)
ReParse(s, i, items) ==
    IF i > Len(s) THEN [ok |-> TRUE, items |-> items]
    ELSE IF s[i] = BS
         THEN IF i + 1 > Len(s) THEN [ok |-> FALSE, items |-> <<>>]
              ELSE ReParse(s, i + 2, Append(items, [set |-> {s[i + 1]}, star |-> FALSE]))
    ELSE IF s[i] = "."
         THEN ReParse(s, i + 1, Append(items, [set |-> Chars, star |-> FALSE]))
    ELSE IF s[i] = "["
         THEN LET cs == ReParseSet(s, i + 1, TRUE, {})
              IN  IF cs.ok
                  THEN ReParse(s, cs.next, Append(items, [set |-> cs.set, star |-> FALSE]))
                  ELSE [ok |-> FALSE, items |-> <<>>]
    ELSE IF s[i] = "*"
         THEN IF items = <<>> \/ items[Len(items)].star
              THEN [ok |-> FALSE, items |-> <<>>]
              ELSE ReParse(s, i + 1,
                           [items EXCEPT ![Len(items)] = [@ EXCEPT !.star = TRUE]])
    ELSE ReParse(s, i + 1, Append(items, [set |-> {s[i]}, star |-> FALSE]))

\* re.match of ^items$ against path[j..]
RECURSIVE ReMatch(_, _, _, _)
ReMatch(items, i, path, j) ==
    IF i > Len(items) THEN j > Len(path)
    ELSE IF items[i].star
         THEN \/ ReMatch(items, i + 1, path, j)
              \/ (j <= Len(path) /\ path[j] \in items[i].set /\ ReMatch(items, i, path, j + 1))
         ELSE j <= Len(path) /\ path[j] \in items[i].set /\ ReMatch(items, i + 1, path, j + 1)

\* a faulty variant: a key applies to the path equal to it only, no wildcard
path_matches_pattern_literal(path, pattern) == path = pattern

\* Comparer._path_matches_pattern
path_matches_pattern(path, pattern) ==
    LET regex_pattern == ReplaceEscStar(EscapeDots(pattern))
        compiled == ReParse(regex_pattern, 1, <<>>)
    IN  IF compiled.ok THEN ReMatch(compiled.items, 1, path, 1)
        ELSE FALSE   \* except re.error: return False

----------------------------------------------------------------------------
(* Rules: ToleranceConfig and FieldConfig (models.py), held by the Comparer *)
(* in an insertion-ordered dict                                            *)

NoneNum == -1   \* the None of an Optional[float] that is otherwise >= 0

ToleranceConfig(percentage, absolute) ==
    [kind |-> "ToleranceConfig", percentage |-> percentage, absolute |-> absolute,
     required |-> FALSE, ignore |-> FALSE, text_validation |-> FALSE]

FieldConfig(required, ignore, text_validation) ==
    [kind |-> "FieldConfig", percentage |-> NoneNum, absolute |-> NoneNum,
     required |-> required, ignore |-> ignore, text_validation |-> text_validation]

\* the None that _get_field_config returns when no key applies
NoConfig ==
    [kind |-> "None", percentage |-> NoneNum, absolute |-> NoneNum,
     required |-> FALSE, ignore |-> FALSE, text_validation |-> FALSE]

\* field_config and hasattr(field_config, 'ignore') and field_config.ignore
IsIgnore(cfg) == cfg.kind = "FieldConfig" /\ cfg.ignore

\* field_config and hasattr(field_config, 'required') and not field_config.required
IsOptional(cfg) == cfg.kind = "FieldConfig" /\ ~cfg.required

\* field_config and hasattr(field_config, 'text_validation') and field_config.text_validation
IsTextValidation(cfg) == cfg.kind = "FieldConfig" /\ cfg.text_validation

Rule(key, config) == [key |-> key, config |-> config]

\* for pattern, config in self.tolerances.items(): the first key that matches
RECURSIVE FirstPatternMatch(_, _, _)
FirstPatternMatch(tols, path, i) ==
    IF i > Len(tols) THEN NoConfig
    ELSE IF path_matches_pattern(path, tols[i].key) THEN tols[i].config
    ELSE FirstPatternMatch(tols, path, i + 1)

\* a faulty variant: the direct lookup is left out, only the patterns are tried
get_field_config_patterns_only(tols, path) == FirstPatternMatch(tols, path, 1)

\* Comparer._get_field_config
get_field_config(tols, path) ==
    IF \E i \in 1..Len(tols) : tols[i].key = path
    THEN tols[CHOOSE i \in 1..Len(tols) : tols[i].key = path].config
    ELSE FirstPatternMatch(tols, path, 1)

----------------------------------------------------------------------------
(* CompareProfile and FieldSettings (models.py) and ComparerFactory.create *)
(* (factory.py).  An Optional[bool] is "None", "True" or "False".          *)

FieldSettings(percentage, absolute, required, ignore, text_validation) ==
    [percentage |-> percentage, absolute |-> absolute, required |-> required,
     ignore |-> ignore, text_validation |-> text_validation]

\* a faulty variant: only the count of the behaviour settings is checked
validate_field_settings_count_only(fs) ==
    Cardinality({x \in {"required", "ignore", "text_validation"} : fs[x] # "None"}) <= 1

\* FieldSettings.validate_field_settings: TRUE where it raises no ValueError
validate_field_settings(fs) ==
    LET has_tolerance == fs.percentage # NoneNum \/ fs.absolute # NoneNum
        has_behavior == fs.required # "None" \/ fs.ignore # "None"
                        \/ fs.text_validation # "None"
        behavior_count == Cardinality({x \in {"required", "ignore", "text_validation"} :
                                          fs[x] # "None"})
    IN  /\ (has_tolerance /\ has_behavior) =>
               /\ fs.ignore = "None" /\ fs.text_validation = "None"
               /\ ~(fs.required # "None" /\ fs.required # "False")
        /\ behavior_count <= 1

\* ComparerFactory.create, lines 69-88: the rule made of one FieldSettings
create_config(fs) ==
    IF fs.percentage # NoneNum \/ fs.absolute # NoneNum
    THEN ToleranceConfig(fs.percentage, fs.absolute)
    ELSE LET required_default == ~(fs.ignore = "True" \/ fs.text_validation = "True")
         IN  FieldConfig(IF fs.required # "None" THEN fs.required = "True"
                         ELSE required_default,
                         IF fs.ignore # "None" THEN fs.ignore = "True" ELSE FALSE,
                         IF fs.text_validation # "None" THEN fs.text_validation = "True"
                         ELSE FALSE)

\* ComparerFactory.create: the tolerances of the Comparer of a profile, its
\* fields an insertion-ordered <<[key, settings]>>
create(profile) ==
    [i \in 1..Len(profile) |->
        [key |-> profile[i].key, config |-> create_config(profile[i].settings)]]

\* info.data.get(key, default): data holds the fields validated so far
DataGet(data, key, default) == IF key \in DOMAIN data THEN data[key] ELSE default

\* FieldConfig.mutually_exclusive_with_required: TRUE where it raises
mutually_exclusive_with_required(v, data) == v /\ DataGet(data, "required", TRUE)

\* FieldConfig.mutually_exclusive_with_each_other: TRUE where it raises
mutually_exclusive_with_each_other(v, data) == v /\ DataGet(data, "text_validation", FALSE)

\* the keyword arguments of FieldConfig(...): "None" is an argument left out
FieldConfigArgs(required, ignore, text_validation) ==
    [required |-> required, ignore |-> ignore, text_validation |-> text_validation]

\* the value of a field: the argument, or the default of the field
FieldValue(args, name) ==
    IF args[name] = "None" THEN name = "required" ELSE args[name] = "True"

\* FieldConfig(**args): TRUE where no validator raises.  The fields are
\* validated in the order of their declaration (required, ignore,
\* text_validation), each validator sees in info.data the fields validated
\* before its own, and no validator runs for an argument left out
validate_field_config(args) ==
    LET raises(name, data) ==
            /\ args[name] # "None"
            /\ \/ mutually_exclusive_with_required(FieldValue(args, name), data)
               \/ mutually_exclusive_with_each_other(FieldValue(args, name), data)
        data1 == [k \in {"required"} |-> FieldValue(args, k)]
        data2 == IF raises("ignore", data1) THEN data1
                 ELSE [k \in {"required", "ignore"} |-> FieldValue(args, k)]
    IN  ~raises("ignore", data1) /\ ~raises("text_validation", data2)

\* the FieldConfig that the arguments make
FieldConfigOf(args) ==
    FieldConfig(FieldValue(args, "required"), FieldValue(args, "ignore"),
                FieldValue(args, "text_validation"))

----------------------------------------------------------------------------
(* Plain data: None, bool, int, float, str, dict, list.  Every value is a  *)
(* record of one shape: t is type(value).__name__, n the number (or 0/1    *)
(* of a bool), s the characters of a str, items the entries of a dict      *)
(* ([k, v], insertion-ordered) or of a list (k empty).                    *)

VNone == [t |-> "NoneType", n |-> 0, s |-> <<>>, items |-> <<>>]
VBool(b) == [t |-> "bool", n |-> IF b THEN 1 ELSE 0, s |-> <<>>, items |-> <<>>]
VInt(n) == [t |-> "int", n |-> n, s |-> <<>>, items |-> <<>>]
VFloat(n) == [t |-> "float", n |-> n, s |-> <<>>, items |-> <<>>]
VStr(s) == [t |-> "str", n |-> 0, s |-> s, items |-> <<>>]
VDict(items) == [t |-> "dict", n |-> 0, s |-> <<>>, items |-> items]
VList(vals) ==
    [t |-> "list", n |-> 0, s |-> <<>>,
     items |-> [i \in 1..Len(vals) |-> [k |-> <<>>, v |-> vals[i]]]]

Entry(k, v) == [k |-> k, v |-> v]

IsNone(v) == v.t = "NoneType"

\* dict.keys()
DictKeys(d) == {d.items[i].k : i \in 1..Len(d.items)}

\* dict.get(key): None when the key is missing
DictGet(d, key) ==
    IF key \in DictKeys(d)
    THEN d.items[CHOOSE i \in 1..Len(d.items) : d.items[i].k = key].v
    ELSE VNone

\* The largest magnitude a float holds (sys.float_info.max), scaled down to
\* the numbers of the model: converting a larger int to float raises
\* OverflowError.
FloatMax == 100000

\* float(value) raises OverflowError
FloatOverflows(v) == v.t = "int" /\ (v.n > FloatMax \/ v.n < -FloatMax)

Abs(x) == IF x < 0 THEN -x ELSE x

\* str(i) of a list index
Digits == <<"0", "1", "2", "3", "4", "5", "6", "7", "8", "9">>
IndexStr(i) == <<Digits[i + 1]>>

\* the characters of a Python string literal, one by one
Text(str) ==
    CASE str = "None" -> <<"N", "o", "n", "e">>
      [] str = "True" -> <<"T", "r", "u", "e">>
      [] str = "False" -> <<"F", "a", "l", "s", "e">>
      [] str = "..." -> <<".", ".", ".">>
      [] str = ", " -> <<",", " ">>
      [] str = ": " -> <<":", " ">>
      [] str = ".0" -> <<".", "0">>

\* str(n) of an int
RECURSIVE NatStr(_)
NatStr(n) == IF n < 10 THEN <<Digits[n + 1]>> ELSE NatStr(n \div 10) \o <<Digits[(n % 10) + 1]>>
IntStr(n) == IF n < 0 THEN <<"-">> \o NatStr(-n) ELSE NatStr(n)

RECURSIVE PyRepr(_)
RECURSIVE ReprItems(_, _)

\* the items of a dict or list display, separated by ', '
ReprItems(items, i) ==
    IF i > Len(items) THEN <<>>
    ELSE (IF i > 1 THEN Text(", ") ELSE <<>>)
         \o (IF items[i].k = <<>> THEN <<>>
             ELSE <<"'">> \o items[i].k \o <<"'">> \o Text(": "))
         \o PyRepr(items[i].v)
         \o ReprItems(items, i + 1)

\* repr(value); the floats of the model are whole numbers
PyRepr(v) ==
    CASE v.t = "NoneType" -> Text("None")
      [] v.t = "bool" -> IF v.n = 1 THEN Text("True") ELSE Text("False")
      [] v.t = "int" -> IntStr(v.n)
      [] v.t = "float" -> IntStr(v.n) \o Text(".0")
      [] v.t = "str" -> <<"'">> \o v.s \o <<"'">>
      [] v.t = "dict" -> <<"{">> \o ReprItems(v.items, 1) \o <<"}">>
      [] v.t = "list" -> <<"[">> \o ReprItems(v.items, 1) \o <<"]">>

\* str(value): a str is its own text, every other value its repr
PyStr(v) == IF v.t = "str" THEN v.s ELSE PyRepr(v)

\* bool(value): None, False, 0, '' and the empty containers are falsy
Truthy(v) ==
    CASE v.t = "NoneType" -> FALSE
      [] v.t \in {"bool", "int", "float"} -> v.n # 0
      [] v.t = "str" -> v.s # <<>>
      [] v.t \in {"dict", "list"} -> v.items # <<>>

\* str.strip(): the white space of the model is the blank
RECURSIVE LStrip(_)
LStrip(s) == IF s # <<>> /\ Head(s) = " " THEN LStrip(Tail(s)) ELSE s
RECURSIVE RStrip(_)
RStrip(s) == IF s # <<>> /\ s[Len(s)] = " " THEN RStrip(SubSeq(s, 1, Len(s) - 1)) ELSE s
Strip(s) == RStrip(LStrip(s))

\* f"{path}.{key}" if path else key
KeyPath(path, key) == IF path = <<>> THEN key ELSE path \o <<".">> \o key

\* f"{path}[{i}]" if path else f"[{i}]"
ItemPath(path, i) == path \o <<"[">> \o IndexStr(i) \o <<"]">>

\* f"{path}.length" if path else "length"
LengthPath(path) == KeyPath(path, <<"l", "e", "n", "g", "t", "h">>)

\* path or "root"
NameOf(path) == IF path = <<>> THEN <<"r", "o", "o", "t">> ELSE path

----------------------------------------------------------------------------
(* FieldResult (models.py).  The reason keeps the fixed words of the       *)
(* code's message; tolerance_applied is [type, value] for "value%" and     *)
(* "value absolute", NoTolerance for None; a type name is "" for None.     *)

NoTolerance == [type |-> "None", value |-> 0]

FieldResult(name, passed, status, exp, act, reason) ==
    [name |-> name, passed |-> passed, status |-> status, expected |-> exp,
     actual |-> act, reason |-> reason, tolerance_applied |-> NoTolerance,
     expected_type |-> "", actual_type |-> ""]

\* what a _compare_* method hands back: its matches flag and the FieldResults
\* it appended to the shared list, or raised when an exception left it
Returned(matches, fields) == [raised |-> FALSE, matches |-> matches, fields |-> fields]
Raised == [raised |-> TRUE, matches |-> FALSE, fields |-> <<>>]

\* Comparer._is_numerical
is_numerical(value) == value.t \in {"int", "float"}

\* a faulty variant: type normalisation is applied whatever the option says
types_compatible_always_normalized(normalize, exp, act) ==
    \/ exp.t = act.t
    \/ (is_numerical(exp) /\ is_numerical(act))

\* Comparer._types_compatible
types_compatible(normalize, exp, act) ==
    \/ exp.t = act.t
    \/ /\ normalize
       /\ \/ (is_numerical(exp) /\ is_numerical(act))
          \/ (exp.t = "str" /\ act.t = "str")

----------------------------------------------------------------------------
(* Comparer: the comparison proper.  C is the Comparer instance (self):    *)
(* [tolerances, normalize_types, hashOrder].                               *)

\* a faulty variant: an ignored field is reported as not passed
compare_ignored_not_passed(path, exp, act) ==
    Returned(TRUE, <<FieldResult(NameOf(path), FALSE, "ignored", exp, act,
                                 "Field configured to ignore")>>)

\* _compare_values, lines 58-67: the field is configured to ignore
compare_ignored(path, exp, act) ==
    Returned(TRUE, <<FieldResult(NameOf(path), TRUE, "ignored", exp, act,
                                 "Field configured to ignore")>>)

\* a faulty variant: a missing value fails whether or not the field is required
compare_absent_always_required(path, exp, act, field_config) ==
    IF IsNone(exp) /\ IsNone(act)
    THEN Returned(TRUE, <<FieldResult(NameOf(path), TRUE, "identical", exp, act,
                                      "Both values are None")>>)
    ELSE Returned(FALSE, <<FieldResult(NameOf(path), FALSE, "missing_required", exp, act,
                                       "Required field missing")>>)

\* _compare_values, lines 69-123: expected or actual is None
compare_absent(path, exp, act, field_config) ==
    IF IsNone(exp) /\ IsNone(act)
    THEN Returned(TRUE, <<FieldResult(NameOf(path), TRUE, "identical", exp, act,
                                      "Both values are None")>>)
    ELSE IF IsNone(exp)
    THEN IF IsOptional(field_config)
         THEN Returned(TRUE, <<FieldResult(NameOf(path), TRUE, "optional_missing", exp, act,
                                           "Optional field missing in expected")>>)
         ELSE Returned(FALSE, <<FieldResult(NameOf(path), FALSE, "missing_required", exp, act,
                                            "Required field missing in expected")>>)
    ELSE IF IsOptional(field_config)
         THEN Returned(TRUE, <<FieldResult(NameOf(path), TRUE, "optional_missing", exp, act,
                                           "Optional field missing in actual")>>)
         ELSE Returned(FALSE, <<FieldResult(NameOf(path), FALSE, "missing_required", exp, act,
                                            "Required field missing in actual")>>)

\* _compare_values, lines 126-137: the types are not compatible
compare_type_mismatch(path, exp, act) ==
    Returned(FALSE,
             <<[FieldResult(NameOf(path), FALSE, "type_mismatch", exp, act, "Type mismatch")
                EXCEPT !.expected_type = exp.t, !.actual_type = act.t]>>)

\* the FieldResult of a number pair for which no tolerance applies
ValueMismatchNoTolerance(path, exp, act) ==
    Returned(FALSE, <<FieldResult(NameOf(path), FALSE, "value_mismatch", exp, act,
                                  "Value mismatch (no tolerance configured)")>>)

\* lines 286-312, in hundredths so that the division by 100.0 stays exact:
\* 100 * percentage_tolerance and 100 * absolute_tolerance
PercentageTolerance100(exp, field_config) == Abs(exp.n * field_config.percentage)
AbsoluteTolerance100(field_config) == 100 * field_config.absolute

\* a faulty variant: of two tolerances the smaller is used
UsesPercentageSmaller(exp, field_config) ==
    /\ field_config.percentage # NoneNum
    /\ \/ field_config.absolute = NoneNum
       \/ PercentageTolerance100(exp, field_config) <= AbsoluteTolerance100(field_config)

\* lines 300-312: the percentage is the tolerance used (whichever is greater,
\* the percentage on a tie)
UsesPercentage(exp, field_config) ==
    /\ field_config.percentage # NoneNum
    /\ \/ field_config.absolute = NoneNum
       \/ PercentageTolerance100(exp, field_config) >= AbsoluteTolerance100(field_config)

\* 100 * tolerance
Tolerance100(exp, field_config) ==
    IF UsesPercentage(exp, field_config)
    THEN PercentageTolerance100(exp, field_config)
    ELSE AbsoluteTolerance100(field_config)

\* tolerance_type
ToleranceType(exp, field_config) ==
    IF UsesPercentage(exp, field_config)
    THEN [type |-> "%", value |-> field_config.percentage]
    ELSE [type |-> "absolute", value |-> field_config.absolute]

\* a faulty variant: the boundary is excluded
WithinToleranceStrict(exp, act, field_config) ==
    100 * Abs(exp.n - act.n) < Tolerance100(exp, field_config)

\* line 328: difference <= tolerance
WithinTolerance(exp, act, field_config) ==
    100 * Abs(exp.n - act.n) <= Tolerance100(exp, field_config)

\* Comparer._compare_numerical_with_tolerance, for the field_config that
\* _get_field_config returned for the path
numerical_with_config(path, exp, act, field_config) ==
    IF field_config.kind # "ToleranceConfig"
    THEN ValueMismatchNoTolerance(path, exp, act)
    ELSE IF field_config.percentage # NoneNum /\ FloatOverflows(exp)
    THEN Raised    \* expected * field_config.percentage: int too large for float
    ELSE IF field_config.percentage = NoneNum /\ field_config.absolute = NoneNum
    THEN ValueMismatchNoTolerance(path, exp, act)
    ELSE IF exp.t # act.t /\ (FloatOverflows(exp) \/ FloatOverflows(act))
    THEN Raised    \* expected - actual of an int and a float
    ELSE IF WithinTolerance(exp, act, field_config)
    THEN Returned(TRUE,
                  <<[FieldResult(NameOf(path), TRUE, "in_tolerance", exp, act,
                                 "Within tolerance")
                     EXCEPT !.tolerance_applied = ToleranceType(exp, field_config)]>>)
    ELSE IF exp.t = "int" /\ act.t = "int" /\ Abs(exp.n - act.n) > FloatMax
    THEN Raised    \* f"{difference:.2f}" of an int too large for float
    ELSE Returned(FALSE,
                  <<[FieldResult(NameOf(path), FALSE, "outside_tolerance", exp, act,
                                 "Outside tolerance")
                     EXCEPT !.tolerance_applied = ToleranceType(exp, field_config)]>>)

\* Comparer._compare_numerical_with_tolerance
compare_numerical_with_tolerance(C, path, exp, act) ==
    numerical_with_config(path, exp, act, get_field_config(C.tolerances, path))

\* expected == actual of two scalars of compatible types
PyEq(exp, act) == exp.n = act.n /\ exp.s = act.s

\* actual and str(actual).strip()
NonEmptyText(act) == Truthy(act) /\ Strip(PyStr(act)) # <<>>

\* a faulty variant: the text validation is tried before the numbers are
compare_primitives_text_first(C, path, exp, act) ==
    IF PyEq(exp, act)
    THEN Returned(TRUE, <<FieldResult(NameOf(path), TRUE, "identical", exp, act,
                                      "Values match exactly")>>)
    ELSE IF IsTextValidation(get_field_config(C.tolerances, path))
    THEN IF NonEmptyText(act)
         THEN Returned(TRUE, <<FieldResult(NameOf(path), TRUE, "in_tolerance", exp, act,
                                           "Text validation passed (non-empty)")>>)
         ELSE Returned(FALSE, <<FieldResult(NameOf(path), FALSE, "outside_tolerance", exp, act,
                                            "Text validation failed (empty or None)")>>)
    ELSE IF is_numerical(exp) /\ is_numerical(act)
    THEN compare_numerical_with_tolerance(C, path, exp, act)
    ELSE Returned(FALSE, <<FieldResult(NameOf(path), FALSE, "value_mismatch", exp, act,
                                       "Value mismatch")>>)

\* Comparer._compare_primitives
compare_primitives(C, path, exp, act) ==
    IF PyEq(exp, act)
    THEN Returned(TRUE, <<FieldResult(NameOf(path), TRUE, "identical", exp, act,
                                      "Values match exactly")>>)
    ELSE IF is_numerical(exp) /\ is_numerical(act)
    THEN compare_numerical_with_tolerance(C, path, exp, act)
    ELSE IF IsTextValidation(get_field_config(C.tolerances, path))
    THEN IF NonEmptyText(act)
         THEN Returned(TRUE, <<FieldResult(NameOf(path), TRUE, "in_tolerance", exp, act,
                                           "Text validation passed (non-empty)")>>)
         ELSE Returned(FALSE, <<FieldResult(NameOf(path), FALSE, "outside_tolerance", exp, act,
                                            "Text validation failed (empty or None)")>>)
    ELSE Returned(FALSE, <<FieldResult(NameOf(path), FALSE, "value_mismatch", exp, act,
                                       "Value mismatch")>>)

\* two steps one after the other on the shared fields list; all_passed stays
\* True only if both match
Then(r1, r2) ==
    IF r1.raised \/ r2.raised THEN Raised
    ELSE Returned(r1.matches /\ r2.matches, r1.fields \o r2.fields)

\* a faulty variant: a length mismatch is reported but does not fail the list
compare_lengths_not_failing(path, exp, act) ==
    IF Len(exp.items) # Len(act.items)
    THEN Returned(TRUE,
                  <<FieldResult(LengthPath(path), FALSE, "array_length_mismatch",
                                VInt(Len(exp.items)), VInt(Len(act.items)),
                                "Array length mismatch")>>)
    ELSE Returned(TRUE, <<>>)

\* _compare_lists, lines 167-176
compare_lengths(path, exp, act) ==
    IF Len(exp.items) # Len(act.items)
    THEN Returned(FALSE,
                  <<FieldResult(LengthPath(path), FALSE, "array_length_mismatch",
                                VInt(Len(exp.items)), VInt(Len(act.items)),
                                "Array length mismatch")>>)
    ELSE Returned(TRUE, <<>>)

\* a faulty variant: an item missing from actual fails whatever its rule says
missing_item_always_required(C, path, exp, i) ==
    Returned(FALSE, <<FieldResult(ItemPath(path, i), FALSE, "missing_required",
                                  exp.items[i + 1].v, VNone, "Required field missing")>>)

\* _compare_lists, lines 189-212: item i (from 0) of expected has no
\* counterpart in actual
missing_item(C, path, exp, i) ==
    LET item_path == ItemPath(path, i)
        field_config == get_field_config(C.tolerances, item_path)
    IN  IF IsOptional(field_config)
        THEN Returned(TRUE, <<FieldResult(item_path, TRUE, "optional_missing",
                                          exp.items[i + 1].v, VNone, "Optional field missing")>>)
        ELSE Returned(FALSE, <<FieldResult(item_path, FALSE, "missing_required",
                                           exp.items[i + 1].v, VNone, "Required field missing")>>)

\* _compare_lists, lines 187-188: for i in range(len(actual), len(expected))
RECURSIVE missing_items(_, _, _, _, _)
missing_items(C, path, exp, i, stop) ==
    IF i >= stop THEN Returned(TRUE, <<>>)
    ELSE Then(missing_item(C, path, exp, i), missing_items(C, path, exp, i + 1, stop))

\* for key in all_keys: a set of str is iterated in an order that the
\* process's string hashing fixes
KeyOrder(C, all_keys) == SelectSeq(C.hashOrder, LAMBDA k : k \in all_keys)

Min(x, y) == IF x <= y THEN x ELSE y

RECURSIVE compare_values(_, _, _, _)
RECURSIVE compare_dict_keys(_, _, _, _, _)
RECURSIVE compare_list_items(_, _, _, _, _, _)

\* _compare_dicts, lines 152-159: the loop over the keys still to visit
compare_dict_keys(C, path, exp, act, keys) ==
    IF keys = <<>> THEN Returned(TRUE, <<>>)
    ELSE Then(compare_values(C, KeyPath(path, Head(keys)),
                             DictGet(exp, Head(keys)), DictGet(act, Head(keys))),
              compare_dict_keys(C, path, exp, act, Tail(keys)))

\* Comparer._compare_dicts
compare_dicts(C, path, exp, act) ==
    compare_dict_keys(C, path, exp, act, KeyOrder(C, DictKeys(exp) \cup DictKeys(act)))

\* _compare_lists, lines 179-184: for i in range(min_length)
compare_list_items(C, path, exp, act, i, min_length) ==
    IF i >= min_length THEN Returned(TRUE, <<>>)
    ELSE Then(compare_values(C, ItemPath(path, i), exp.items[i + 1].v, act.items[i + 1].v),
              compare_list_items(C, path, exp, act, i + 1, min_length))

\* a faulty variant: a length mismatch is forgiven when every item that
\* actual lacks is optional
compare_lists_forgiving(C, path, exp, act) ==
    LET lengths == compare_lengths(path, exp, act)
        missing == IF Len(act.items) < Len(exp.items)
                   THEN missing_items(C, path, exp, Len(act.items), Len(exp.items))
                   ELSE Returned(TRUE, <<>>)
    IN  Then(IF missing.matches /\ missing.fields # <<>>
             THEN Returned(TRUE, lengths.fields) ELSE lengths,
             Then(compare_list_items(C, path, exp, act, 0,
                                     Min(Len(exp.items), Len(act.items))),
                  missing))

\* Comparer._compare_lists
compare_lists(C, path, exp, act) ==
    Then(compare_lengths(path, exp, act),
         Then(compare_list_items(C, path, exp, act, 0, Min(Len(exp.items), Len(act.items))),
              IF Len(act.items) < Len(exp.items)
              THEN missing_items(C, path, exp, Len(act.items), Len(exp.items))
              ELSE Returned(TRUE, <<>>)))

\* Comparer._compare_values
compare_values(C, path, exp, act) ==
    LET field_config == get_field_config(C.tolerances, path)
    IN  IF IsIgnore(field_config) THEN compare_ignored(path, exp, act)
        ELSE IF IsNone(exp) \/ IsNone(act) THEN compare_absent(path, exp, act, field_config)
        ELSE IF ~types_compatible(C.normalize_types, exp, act)
             THEN compare_type_mismatch(path, exp, act)
        ELSE IF exp.t = "dict" /\ act.t = "dict" THEN compare_dicts(C, path, exp, act)
        ELSE IF exp.t = "list" /\ act.t = "list" THEN compare_lists(C, path, exp, act)
        ELSE compare_primitives(C, path, exp, act)

\* the calls [path, exp, act] of _compare_values that a call makes, itself
\* included: _compare_dicts calls it for every key of either side,
\* _compare_lists for every index below the shorter length
RECURSIVE Visits(_, _, _, _)
Visits(C, path, exp, act) ==
    {[path |-> path, exp |-> exp, act |-> act]} \cup
    IF \/ IsIgnore(get_field_config(C.tolerances, path))
       \/ IsNone(exp) \/ IsNone(act)
       \/ ~types_compatible(C.normalize_types, exp, act)
    THEN {}
    ELSE IF exp.t = "dict" /\ act.t = "dict"
    THEN UNION {Visits(C, KeyPath(path, k), DictGet(exp, k), DictGet(act, k)) :
                k \in DictKeys(exp) \cup DictKeys(act)}
    ELSE IF exp.t = "list" /\ act.t = "list"
    THEN UNION {Visits(C, ItemPath(path, i), exp.items[i + 1].v, act.items[i + 1].v) :
                i \in 0..(Min(Len(exp.items), Len(act.items)) - 1)}
    ELSE {}

\* the number of FieldResults of fields that did not pass
Differences(fields) == Cardinality({i \in 1..Len(fields) : ~fields[i].passed})

\* the FullComparisonResult of compare: the summary is its word and its count
FullComparisonResult(matches, fields) ==
    [raised |-> FALSE, matches |-> matches,
     summary |-> [word |-> IF matches THEN "passed" ELSE "failed",
                  differences |-> Differences(fields)],
     fields |-> fields]

\* compare left by an exception: nothing is returned
Exception ==
    [raised |-> TRUE, matches |-> FALSE,
     summary |-> [word |-> "", differences |-> 0], fields |-> <<>>]

\* before any call
NoResult ==
    [raised |-> FALSE, matches |-> FALSE,
     summary |-> [word |-> "", differences |-> 0], fields |-> <<>>]

\* a faulty variant: the list of fields is not made anew for a call, the
\* FieldResults of the call before are still in it
compare_keeping_fields(C, exp, act) ==
    LET r == compare_values(C, <<>>, exp, act)
    IN  IF r.raised THEN Exception
        ELSE FullComparisonResult(r.matches, result.fields \o r.fields)

\* Comparer.compare
compare(C, exp, act) ==
    LET r == compare_values(C, <<>>, exp, act)
    IN  IF r.raised THEN Exception ELSE FullComparisonResult(r.matches, r.fields)

----------------------------------------------------------------------------
(* compare step by step, for calls that run interleaved.  A call in        *)
(* progress is a frame: its arguments, its local list fields, the          *)
(* conjunction of what its _compare_* calls returned so far, and the       *)
(* calls it still has to make, next first.  A step makes one call of       *)
(* _compare_values (or reports one missing list item) up to the point      *)
(* where it hands over to the calls for its children.                      *)

\* a call still to make: _compare_values(exp, act, path), or the report of
\* item i of expected that actual lacks
ValuesTask(path, exp, act) == [kind |-> "values", path |-> path, exp |-> exp, act |-> act, i |-> 0]
MissingTask(path, exp, i) == [kind |-> "missing", path |-> path, exp |-> exp, act |-> VNone, i |-> i]

\* _compare_dicts: the calls for the keys, in iteration order
DictTasks(C, path, exp, act) ==
    LET keys == KeyOrder(C, DictKeys(exp) \cup DictKeys(act))
    IN  [j \in 1..Len(keys) |->
            ValuesTask(KeyPath(path, keys[j]), DictGet(exp, keys[j]), DictGet(act, keys[j]))]

\* _compare_lists: the calls for the common items, then the missing items
ListTasks(path, exp, act) ==
    LET min_length == Min(Len(exp.items), Len(act.items))
    IN  [j \in 1..min_length |->
            ValuesTask(ItemPath(path, j - 1), exp.items[j].v, act.items[j].v)]
        \o [j \in 1..(Len(exp.items) - min_length) |->
            MissingTask(path, exp, min_length + j - 1)]

\* one step of a call: what it appends and returns itself, and the calls
\* it makes next
step_task(C, task) ==
    LET path == task.path
        exp == task.exp
        act == task.act
        descends == /\ ~IsIgnore(get_field_config(C.tolerances, path))
                    /\ ~IsNone(exp) /\ ~IsNone(act)
                    /\ types_compatible(C.normalize_types, exp, act)
    IN  IF task.kind = "missing"
        THEN [out |-> missing_item(C, path, exp, task.i), calls |-> <<>>]
        ELSE IF descends /\ exp.t = "dict" /\ act.t = "dict"
        THEN [out |-> Returned(TRUE, <<>>), calls |-> DictTasks(C, path, exp, act)]
        ELSE IF descends /\ exp.t = "list" /\ act.t = "list"
        THEN [out |-> compare_lengths(path, exp, act), calls |-> ListTasks(path, exp, act)]
        ELSE [out |-> compare_values(C, path, exp, act), calls |-> <<>>]

\* a frame of compare: line 41 makes the list fields anew for the call
NewFrame(exp, act) ==
    [state |-> "running", expected |-> exp, actual |-> act, fields |-> <<>>,
     all_passed |-> TRUE, todo |-> <<ValuesTask(<<>>, exp, act)>>, result |-> NoResult,
     overlapped |-> FALSE]

\* a faulty variant: fields is an attribute of the Comparer, one list that
\* every call in progress appends to
append_fields_shared(fs, i, new) ==
    [j \in DOMAIN fs |-> [fs[j] EXCEPT !.fields = @ \o new]]

\* fields.append(...): the list is the local variable of call i
append_fields(fs, i, new) == [fs EXCEPT ![i].fields = @ \o new]

\* the frames after call i has made its next step
step_frame(C, fs, i) ==
    LET s == step_task(C, Head(fs[i].todo))
    IN  IF s.out.raised
        THEN [fs EXCEPT ![i].state = "returned", ![i].todo = <<>>, ![i].result = Exception]
        ELSE [append_fields(fs, i, s.out.fields) EXCEPT
                 ![i].all_passed = @ /\ s.out.matches,
                 ![i].todo = s.calls \o Tail(@)]

\* lines 44-52: the FullComparisonResult of call i
return_frame(fs, i) ==
    [fs EXCEPT ![i].state = "returned",
               ![i].result = FullComparisonResult(fs[i].all_passed, fs[i].fields)]

----------------------------------------------------------------------------
(* ComparisonResult (models.py): filter and format_table.  A table is its  *)
(* lines after the header and the separator, each line the columns of one  *)
(* FieldResult.                                                            *)

\* ComparisonStatus
ComparisonStatus ==
    {"identical", "in_tolerance", "ignored", "optional_missing", "outside_tolerance",
     "missing_required", "type_mismatch", "value_mismatch", "object_missing",
     "array_length_mismatch"}

\* ComparisonResult(fields=...): the fields and nothing else
ComparisonResult(fields) == [fields |-> fields]

\* a faulty variant: the status is compared with the enum member, not with
\* its value, and no field is ever equal to it
filter_by_member(r, status_filter) == ComparisonResult(<<>>)

\* FullComparisonResult.filter
filter(r, status_filter) ==
    ComparisonResult(SelectSeq(r.fields, LAMBDA f : f.status = status_filter))

\* str(value)[:8] + "..." if len(str(value)) > 8 else str(value)
Truncated(v) ==
    IF Len(PyStr(v)) > 8 THEN SubSeq(PyStr(v), 1, 8) \o Text("...") ELSE PyStr(v)

\* format_table, lines 191-194: a name longer than 30 is cut from the left
FieldNameStr(name) ==
    IF Len(name) > 30 THEN Text("...") \o SubSeq(name, Len(name) - 26, Len(name)) ELSE name

\* status_map.get(field.status, field.status)
SimpleStatus(status) ==
    CASE status = "identical" -> "match"
      [] status \in {"in_tolerance", "optional_missing"} -> "tolerated"
      [] status \in {"outside_tolerance", "type_mismatch", "missing_required",
                     "value_mismatch", "object_missing", "array_length_mismatch"} -> "fail"
      [] status = "ignored" -> "ignored"
      [] OTHER -> status

\* ComparisonResult._create_short_reason: the word, and the tolerance that
\* follows '<' or '>'
create_short_reason(field) ==
    LET word(w) == [word |-> w, tolerance |-> NoTolerance]
    IN  CASE field.status = "identical" -> word("exact")
          [] field.status = "in_tolerance" ->
                IF field.tolerance_applied # NoTolerance
                THEN [word |-> "<", tolerance |-> field.tolerance_applied]
                ELSE word("tolerated")
          [] field.status = "outside_tolerance" ->
                IF field.tolerance_applied # NoTolerance
                THEN [word |-> ">", tolerance |-> field.tolerance_applied]
                ELSE word("failed")
          [] field.status = "type_mismatch" -> word("type")
          [] field.status = "missing_required" -> word("missing")
          [] field.status = "optional_missing" -> word("optional")
          [] field.status = "value_mismatch" -> word("exact")
          [] field.status = "object_missing" -> word("missing")
          [] field.status = "array_length_mismatch" -> word("length")
          [] field.status = "ignored" -> word("ignored")
          [] OTHER -> word(field.reason)   \* no status of ComparisonStatus comes here

\* format_table, lines 172-197: the row of one field
Row(field) ==
    [field_name_str |-> FieldNameStr(field.name),
     simple_status |-> SimpleStatus(field.status),
     expected_str |-> Truncated(field.expected),
     actual_str |-> Truncated(field.actual),
     reason_str |-> create_short_reason(field)]

\* what format_table hands back: a message, a table, or a ValueError
Message(text) == [raised |-> FALSE, text |-> text, rows |-> <<>>]
Table(rows) == [raised |-> FALSE, text |-> "table", rows |-> rows]
ValueError == [raised |-> TRUE, text |-> "", rows |-> <<>>]

Details == {"failures", "differences", "all"}

\* a faulty variant: the differences are the fields that did not pass
FilteredFieldsNotPassed(fields, detail) ==
    CASE detail = "failures" ->
            SelectSeq(fields, LAMBDA f : f.status \notin {"identical", "in_tolerance", "ignored"})
      [] detail = "differences" -> SelectSeq(fields, LAMBDA f : ~f.passed)
      [] detail = "all" -> fields

\* format_table, lines 151-161: the fields that the detail level keeps
FilteredFields(fields, detail) ==
    CASE detail = "failures" ->
            SelectSeq(fields, LAMBDA f : f.status \notin {"identical", "in_tolerance", "ignored"})
      [] detail = "differences" ->
            SelectSeq(fields, LAMBDA f : f.status \notin {"identical", "ignored"})
      [] detail = "all" -> fields

\* ComparisonResult.format_table
format_table(r, detail) ==
    IF r.fields = <<>> THEN Message("No fields to display")
    ELSE IF detail \notin Details THEN ValueError
    ELSE LET filtered_fields == FilteredFields(r.fields, detail)
         IN  IF filtered_fields = <<>>
             THEN Message("No fields match the specified detail level")
             ELSE Table([i \in 1..Len(filtered_fields) |-> Row(filtered_fields[i])])

----------------------------------------------------------------------------
(* Logging (models.py): LoggingConfig, the module's cache of logged        *)
(* profiles and FullComparisonResult.auto_log.  A profile is known by its  *)
(* hash (_get_profile_hash), a positive number.                            *)

DEBUG == 10   \* logging.DEBUG
INFO == 20    \* logging.INFO
WARNING == 30 \* logging.WARNING, the level of a logger that was not configured

\* LoggingConfig; enabled is an Optional[bool], level is left at its default
LoggingConfig(enabled, when, detail, format) ==
    [enabled |-> enabled, when |-> when, detail |-> detail, format |-> format,
     level |-> INFO]

\* LoggingConfig(): the defaults of its fields
DefaultLogging == LoggingConfig("None", "on_fail", "failures", "table")

\* logger.isEnabledFor(level), for a logger of the given effective level
isEnabledFor(effective_level, level) == level >= effective_level

\* ComparisonResult._get_filtered_fields.  f.status is the value of the
\* enum (use_enum_values), a str, and a str is never equal to the member
\* ComparisonStatus.IDENTICAL: the test of DIFFERENCES keeps every field
get_filtered_fields(r, detail) ==
    CASE detail = "failures" -> SelectSeq(r.fields, LAMBDA f : ~f.passed)
      [] detail = "differences" -> SelectSeq(r.fields, LAMBDA f : TRUE)
      [] OTHER -> r.fields

MaxLoggedProfiles == 100   \* deque(maxlen=100)

\* a faulty variant: a deque without maxlen
deque_append_unbounded(d, x) == Append(d, x)

\* _logged_profiles.append(...): a full deque drops its oldest entry
deque_append(d, x) ==
    IF Len(d) >= MaxLoggedProfiles THEN Append(Tail(d), x) ELSE Append(d, x)

\* a record handed to the logger
LogRecord(level, msg, hash, output) ==
    [level |-> level, msg |-> msg, hash |-> hash, output |-> output]

NoHash == 0          \* tolerances=None: no profile is passed
NoOutput == Message("")

\* what a table or a JSON text shows of a result: the fields, in order
JsonOf(fields) == [raised |-> FALSE, text |-> "json", rows |-> fields]

\* auto_log, lines 292-324: the debug records of the raw objects and of the
\* profile, and the cache after them
log_debug(cache, effective_level, with_data, profile_hash) ==
    IF ~(isEnabledFor(effective_level, DEBUG) /\ with_data)
    THEN [records |-> <<>>, cache |-> cache]
    ELSE LET data == <<LogRecord(DEBUG, "Expected data (JSON)", NoHash, NoOutput),
                       LogRecord(DEBUG, "Actual data (JSON)", NoHash, NoOutput)>>
             profile_found == \E i \in 1..Len(cache) : cache[i] = profile_hash
         IN  IF profile_hash = NoHash THEN [records |-> data, cache |-> cache]
             ELSE IF ~profile_found
             THEN [records |-> Append(data, LogRecord(DEBUG, "Comparison profile (JSON)",
                                                      profile_hash, NoOutput)),
                   cache |-> deque_append(cache, profile_hash)]
             ELSE [records |-> Append(data, LogRecord(DEBUG,
                                          "Comparison profile - details logged previously",
                                          profile_hash, NoOutput)),
                   cache |-> cache]

\* auto_log, lines 326-359: the record of the result.  logger.log hands the
\* record on only if the logger is enabled for the configured level
log_result(r, logging_config, effective_level) ==
    LET should_log == \/ logging_config.when = "always"
                      \/ (logging_config.when = "on_fail" /\ ~r.matches)
        record == IF logging_config.format = "table"
                  THEN LogRecord(logging_config.level, "Comparison Result", NoHash,
                                 format_table(r, logging_config.detail))
                  ELSE LogRecord(logging_config.level, "Comparison Result (JSON)", NoHash,
                                 JsonOf(get_filtered_fields(r, logging_config.detail)))
    IN  IF logging_config.enabled = "None" /\ ~isEnabledFor(effective_level, INFO) THEN <<>>
        ELSE IF ~should_log THEN <<>>
        ELSE IF ~isEnabledFor(effective_level, logging_config.level) THEN <<>>
        ELSE <<record>>

\* FullComparisonResult.auto_log: the records it writes and the cache it leaves
auto_log(r, cache, logging_config, effective_level, with_data, profile_hash) ==
    IF logging_config.enabled = "False" THEN [records |-> <<>>, cache |-> cache]
    ELSE LET dbg == log_debug(cache, effective_level, with_data, profile_hash)
         IN  [records |-> dbg.records \o log_result(r, logging_config, effective_level),
              cache |-> dbg.cache]

----------------------------------------------------------------------------
(* The inputs of the model *)

MaxLen == 2       \* the longest list
MaxPatLen == 3    \* the longest pattern handed to _path_matches_pattern
MaxPathLen == 3   \* the longest path handed to _path_matches_pattern
MaxRules == 2     \* the most keys of a rule set handed to _get_field_config

Ka == <<"a">>
Kb == <<"b">>

\* the two orders in which a process can iterate the key set {a, b}
HashOrders == {<<Ka, Kb>>, <<Kb, Ka>>}

Comparer(tols, normalize, order) ==
    [tolerances |-> tols, normalize_types |-> normalize, hashOrder |-> order]

\* the Comparer of the current state
Self == Comparer(tolerances, normalize_types, hashOrder)

\* the rules that the validators of ToleranceConfig and FieldConfig let
\* through: ignore or text_validation only with required = False
Required == FieldConfig(TRUE, FALSE, FALSE)
Optional == FieldConfig(FALSE, FALSE, FALSE)
Ignore == FieldConfig(FALSE, TRUE, FALSE)
TextValidation == FieldConfig(FALSE, FALSE, TRUE)

\* dicts with the keys a and b, each missing or holding a leaf
DictsOver(leaves) ==
    {VDict(ea \o eb) : ea \in {<<>>} \cup {<<Entry(Ka, l)>> : l \in leaves},
                       eb \in {<<>>} \cup {<<Entry(Kb, l)>> : l \in leaves}}

ListsOver(leaves) == {VList(s) : s \in SeqsUpTo(leaves, MaxLen)}

Leaves == {VNone, VInt(10), VInt(11)}
\* the items of the lists on the actual side of a pair of root lists
ActualItems == {VNone, VInt(10)}
RootLeaves == Leaves \cup {VStr(<<"x">>)}
InnerDicts == {VDict(<<>>), VDict(<<Entry(Kb, VInt(10))>>), VDict(<<Entry(Kb, VInt(11))>>)}
Inner == InnerDicts \cup ListsOver(InnerDicts \ {VDict(<<>>)})
Nested == {VDict(<<>>)} \cup {VDict(<<Entry(Ka, x)>>) : x \in Inner}

\* the pairs (expected, actual) that compare is called with
InputPairs ==
    (RootLeaves \X RootLeaves)
    \cup (DictsOver(Leaves) \X DictsOver(Leaves))
    \cup (ListsOver(Leaves) \X ListsOver(ActualItems))
    \cup (Nested \X Nested)
    \cup {<<VDict(<<Entry(Ka, VInt(10))>>), VList(<<VInt(10)>>)>>,
          <<VList(<<VInt(10)>>), VDict(<<Entry(Ka, VInt(10))>>)>>,
          <<VInt(10), VList(<<VInt(10)>>)>>,
          <<VDict(<<>>), VStr(<<"x">>)>>}

RuleKeys == {Ka, <<"[", "1", "]">>, <<"a", ".", "*">>, <<"a", ".", "b">>,
             <<"a", "[", "1", "]">>}
RuleConfigs == {Required, Optional, Ignore, ToleranceConfig(10, NoneNum)}

\* the key 'a.*.b': the field b of every item of the list at a
ItemsB == <<"a", ".", "*", ".", "b">>

\* the rule sets a Comparer is constructed with
RuleSets ==
    {<<>>}
    \cup {<<Rule(k, c)>> : k \in RuleKeys, c \in RuleConfigs}
    \cup {<<Rule(<<"a", ".", "*">>, Ignore), Rule(Ka, Required)>>,
          <<Rule(<<"a", ".", "*">>, Optional), Rule(<<"a", ".", "b">>, Ignore)>>,
          <<Rule(ItemsB, ToleranceConfig(10, NoneNum))>>,
          <<Rule(ItemsB, ToleranceConfig(5, NoneNum))>>,
          <<Rule(<<"a", ".", "*">>, Required), Rule(ItemsB, ToleranceConfig(5, NoneNum))>>}

\* nothing has been handed to the matcher
Unused == <<"-">>

MatchIdle ==
    /\ mPattern = Unused
    /\ mPath = Unused
    /\ mMatched = FALSE
    /\ mConfig = NoConfig

\* filter and format_table have not been called
NoFilter == [called |-> FALSE, status_filter |-> "", returned |-> ComparisonResult(<<>>)]
NoTable == [called |-> FALSE, self |-> <<>>, detail |-> "", returned |-> Message("")]

\* no compare call is in progress, nothing was constructed, nothing logged
NoFrames == <<>>
NotMade == [stage |-> "none", kind |-> "", args |-> <<>>]

LogIdle ==
    /\ frames = NoFrames
    /\ made = NotMade
    /\ logging = DefaultLogging
    /\ records = <<>>
    /\ logged_profiles = <<>>
    /\ logger_level = WARNING

CompareIdle ==
    /\ expected = VNone
    /\ actual = VNone
    /\ result = NoResult
    /\ pc = "idle"
    /\ calls = <<>>
    /\ filterCall = NoFilter
    /\ tableCall = NoTable

\* Comparer.__init__
Init ==
    /\ tolerances \in RuleSets
    /\ normalize_types \in BOOLEAN
    /\ hashOrder \in HashOrders
    /\ CompareIdle
    /\ LogIdle
    /\ MatchIdle

\* result = comparer.compare(expected, actual)
Call(exp, act) ==
    /\ expected' = exp
    /\ actual' = act
    /\ result' = compare(Self, exp, act)
    /\ calls' = Append(calls, [expected |-> exp, actual |-> act, result |-> result'])
    /\ pc' = "done"
    /\ records' = <<>>
    /\ UNCHANGED <<tolerances, normalize_types, hashOrder, mPattern, mPath, mMatched,
                   mConfig, filterCall, tableCall, frames, made, logging,
                   logged_profiles, logger_level>>

\* the first call of a behaviour
Compare(exp, act) ==
    /\ pc = "idle"
    /\ Call(exp, act)

Next == \E p \in InputPairs : Compare(p[1], p[2])

Spec == Init /\ [][Next]_vars

----------------------------------------------------------------------------
(* Comparisons of two values at the root, under a rule for the root path   *)

\* an int that no float holds
HugeInt == VInt(FloatMax + 1)

ScalarValues ==
    {VNone, VBool(TRUE), VBool(FALSE),
     VInt(-10), VInt(0), VInt(9), VInt(10), VInt(11), VInt(12), VInt(200), VInt(220),
     HugeInt,
     VFloat(9), VFloat(10), VFloat(11), VFloat(13), VFloat(15),
     VStr(<<>>), VStr(<<" ">>), VStr(<<"x">>), VStr(<<"y">>),
     VDict(<<Entry(Ka, VInt(10))>>), VList(<<VInt(10)>>)}

\* rule sets whose one key is the root path "", a wildcard that matches it,
\* or a key that re.compile rejects
ScalarRuleSets ==
    {<<>>}
    \cup {<<Rule(<<>>, c)>> :
          c \in {ToleranceConfig(10, NoneNum), ToleranceConfig(NoneNum, 1),
                 ToleranceConfig(NoneNum, 2), ToleranceConfig(10, 1),
                 ToleranceConfig(10, 2), ToleranceConfig(0, NoneNum),
                 ToleranceConfig(NoneNum, NoneNum),
                 Required, Optional, Ignore, TextValidation}}
    \cup {<<Rule(<<".", "*">>, ToleranceConfig(10, NoneNum))>>,
          <<Rule(<<"*">>, Ignore)>>,
          <<Rule(<<"[">>, ToleranceConfig(NoneNum, 2))>>}

InitScalar ==
    /\ tolerances \in ScalarRuleSets
    /\ normalize_types \in BOOLEAN
    /\ hashOrder = <<Ka, Kb>>
    /\ CompareIdle
    /\ LogIdle
    /\ MatchIdle

NextScalar == \E exp \in ScalarValues, act \in ScalarValues : Compare(exp, act)

SpecScalar == InitScalar /\ [][NextScalar]_vars

----------------------------------------------------------------------------
(* Comparers created from a profile, comparing dicts with a text field a *)

OptionalBool == {"None", "True", "False"}

\* the FieldSettings that the validator of the model lets through
ValidFieldSettings ==
    {fs \in {FieldSettings(p, NoneNum, r, i, t) :
                 p \in {NoneNum, 10}, r \in OptionalBool, i \in OptionalBool,
                 t \in OptionalBool} :
        validate_field_settings(fs)}

Profiles ==
    {<<>>} \cup {<<[key |-> Ka, settings |-> fs]>> : fs \in ValidFieldSettings}

\* text_validation: true, as a profile writes it
TextOnly == FieldSettings(NoneNum, NoneNum, "None", "None", "True")

TextLeaves == {VNone, VStr(<<>>), VStr(<<" ">>), VStr(<<"x">>), VStr(<<"y", " ">>)}

TextDicts == {VDict(<<>>)} \cup {VDict(<<Entry(Ka, l)>>) : l \in TextLeaves}

InitProfile ==
    /\ tolerances \in {create(profile) : profile \in Profiles}
    /\ normalize_types \in BOOLEAN
    /\ hashOrder = <<Ka, Kb>>
    /\ CompareIdle
    /\ LogIdle
    /\ MatchIdle

NextProfile == \E exp \in TextDicts, act \in TextDicts : Compare(exp, act)

SpecProfile == InitProfile /\ [][NextProfile]_vars

----------------------------------------------------------------------------
(* The construction of a FieldSettings or of a FieldConfig, the Comparer   *)
(* made of it for the key a, and a comparison with that Comparer           *)

AllFieldSettings ==
    {FieldSettings(p, a, r, i, t) :
        p \in {NoneNum, 10}, a \in {NoneNum, 2},
        r \in OptionalBool, i \in OptionalBool, t \in OptionalBool}

AllFieldConfigArgs ==
    {FieldConfigArgs(r, i, t) : r \in OptionalBool, i \in OptionalBool, t \in OptionalBool}

MadeLeaves == {VInt(10), VInt(11), VInt(13), VStr(<<"x">>), VStr(<<>>)}

MadeDicts == {VDict(<<>>)} \cup {VDict(<<Entry(Ka, l)>>) : l \in MadeLeaves}

InitMade ==
    /\ tolerances = <<>>
    /\ normalize_types = FALSE
    /\ hashOrder = <<Ka, Kb>>
    /\ CompareIdle
    /\ LogIdle
    /\ MatchIdle

\* FieldSettings(**fs), as written in code or loaded from a profile file
MakeFieldSettings(fs) ==
    /\ made.stage = "none"
    /\ made' = [stage |-> IF validate_field_settings(fs) THEN "object" ELSE "raised",
                kind |-> "FieldSettings", args |-> fs]
    /\ UNCHANGED <<tolerances, normalize_types, hashOrder, expected, actual, result, pc,
                   mPattern, mPath, mMatched, mConfig, calls, filterCall, tableCall,
                   frames, logging, records, logged_profiles, logger_level>>

\* FieldConfig(**args)
MakeFieldConfig(args) ==
    /\ made.stage = "none"
    /\ made' = [stage |-> IF validate_field_config(args) THEN "object" ELSE "raised",
                kind |-> "FieldConfig", args |-> args]
    /\ UNCHANGED <<tolerances, normalize_types, hashOrder, expected, actual, result, pc,
                   mPattern, mPath, mMatched, mConfig, calls, filterCall, tableCall,
                   frames, logging, records, logged_profiles, logger_level>>

\* create(CompareProfile(fields={'a': settings}))
Create ==
    /\ made.stage = "object" /\ made.kind = "FieldSettings"
    /\ tolerances' = create(<<[key |-> Ka, settings |-> made.args]>>)
    /\ made' = [made EXCEPT !.stage = "comparer"]
    /\ UNCHANGED <<normalize_types, hashOrder, expected, actual, result, pc,
                   mPattern, mPath, mMatched, mConfig, calls, filterCall, tableCall,
                   frames, logging, records, logged_profiles, logger_level>>

\* Comparer({'a': config})
NewComparer ==
    /\ made.stage = "object" /\ made.kind = "FieldConfig"
    /\ tolerances' = <<Rule(Ka, FieldConfigOf(made.args))>>
    /\ made' = [made EXCEPT !.stage = "comparer"]
    /\ UNCHANGED <<normalize_types, hashOrder, expected, actual, result, pc,
                   mPattern, mPath, mMatched, mConfig, calls, filterCall, tableCall,
                   frames, logging, records, logged_profiles, logger_level>>

\* compare with the Comparer that was made
CompareMade(exp, act) ==
    /\ made.stage = "comparer"
    /\ Compare(exp, act)

NextMade ==
    \/ \E fs \in AllFieldSettings : MakeFieldSettings(fs)
    \/ \E args \in AllFieldConfigArgs : MakeFieldConfig(args)
    \/ Create
    \/ NewComparer
    \/ \E exp \in MadeDicts, act \in MadeDicts : CompareMade(exp, act)

SpecMade == InitMade /\ [][NextMade]_vars

----------------------------------------------------------------------------
(* Dicts whose keys hold a dot: the key 'a.b' beside the key b of a dict   *)
(* at a                                                                    *)

Kab == <<"a", ".", "b">>

\* the orders in which a process can iterate the keys a, b and 'a.b'
DottedOrders ==
    {<<Ka, Kb, Kab>>, <<Ka, Kab, Kb>>, <<Kb, Ka, Kab>>,
     <<Kb, Kab, Ka>>, <<Kab, Ka, Kb>>, <<Kab, Kb, Ka>>}

DottedDicts ==
    {VDict(ea \o eab) :
        ea \in {<<>>, <<Entry(Ka, VInt(10))>>,
                <<Entry(Ka, VDict(<<Entry(Kb, VInt(10))>>))>>,
                <<Entry(Ka, VDict(<<Entry(Kb, VInt(11))>>))>>},
        eab \in {<<>>, <<Entry(Kab, VInt(10))>>, <<Entry(Kab, VInt(11))>>}}

DottedRuleSets ==
    {<<>>, <<Rule(Kab, ToleranceConfig(5, NoneNum))>>, <<Rule(Kab, Ignore)>>}

InitDotted ==
    /\ tolerances \in DottedRuleSets
    /\ normalize_types = FALSE
    /\ hashOrder \in DottedOrders
    /\ CompareIdle
    /\ LogIdle
    /\ MatchIdle

NextDotted == \E exp \in DottedDicts, act \in DottedDicts : Compare(exp, act)

SpecDotted == InitDotted /\ [][NextDotted]_vars

----------------------------------------------------------------------------
(* Two calls of compare, one after the other, on one Comparer *)

TwiceDicts ==
    DictsOver({VInt(10)}) \cup {VDict(<<Entry(Ka, VInt(10)), Entry(Kb, VInt(11))>>)}

TwiceRuleSets ==
    {<<>>, <<Rule(Kb, ToleranceConfig(10, NoneNum))>>, <<Rule(Ka, Ignore)>>}

InitTwice ==
    /\ tolerances \in TwiceRuleSets
    /\ normalize_types = FALSE
    /\ hashOrder \in HashOrders
    /\ CompareIdle
    /\ LogIdle
    /\ MatchIdle

\* the second call of a behaviour
CompareAgain(exp, act) ==
    /\ pc = "done"
    /\ Len(calls) = 1
    /\ Call(exp, act)

NextTwice ==
    \/ \E exp \in TwiceDicts, act \in TwiceDicts : Compare(exp, act)
    \/ \E exp \in TwiceDicts, act \in TwiceDicts : CompareAgain(exp, act)

SpecTwice == InitTwice /\ [][NextTwice]_vars

----------------------------------------------------------------------------
(* Calls of compare on one Comparer that run interleaved (threads): each   *)
(* call advances by steps, and the steps of the calls come in any order.   *)
(* The Comparer's attributes are only read.                                *)

MaxCalls == 2     \* the most calls in progress at a time

InterleavedPairs ==
    {<<VDict(<<Entry(Ka, VInt(10)), Entry(Kb, VInt(10))>>),
       VDict(<<Entry(Ka, VInt(10)), Entry(Kb, VInt(11))>>)>>,
     <<VDict(<<Entry(Ka, VInt(10))>>), VDict(<<Entry(Kb, VInt(10))>>)>>,
     <<VList(<<VInt(10), VInt(10)>>), VList(<<VInt(10)>>)>>,
     <<VInt(10), VInt(10)>>}

InterleavedRuleSets == {<<>>, <<Rule(Kb, ToleranceConfig(10, NoneNum))>>, <<Rule(Ka, Optional)>>}

InitInterleaved ==
    /\ tolerances \in InterleavedRuleSets
    /\ normalize_types = FALSE
    /\ hashOrder \in HashOrders
    /\ CompareIdle
    /\ LogIdle
    /\ MatchIdle

\* a thread enters compare(expected, actual)
BeginCompare(exp, act) ==
    /\ Len(frames) < MaxCalls
    /\ frames' = Append(frames, NewFrame(exp, act))
    /\ UNCHANGED <<tolerances, normalize_types, hashOrder, expected, actual, result, pc,
                   mPattern, mPath, mMatched, mConfig, calls, filterCall, tableCall,
                   made, logging, records, logged_profiles, logger_level>>

\* call i makes its next step; it has overlapped once it does so while
\* another call is in the middle of its traversal
StepCompare(i) ==
    /\ i \in 1..Len(frames)
    /\ frames[i].state = "running"
    /\ frames[i].todo # <<>>
    /\ LET amid == \E j \in 1..Len(frames) :
                       /\ j # i /\ frames[j].state = "running"
                       /\ frames[j].fields # <<>> /\ frames[j].todo # <<>>
       IN  frames' = [step_frame(Self, frames, i) EXCEPT ![i].overlapped = @ \/ amid]
    /\ UNCHANGED <<tolerances, normalize_types, hashOrder, expected, actual, result, pc,
                   mPattern, mPath, mMatched, mConfig, calls, filterCall, tableCall,
                   made, logging, records, logged_profiles, logger_level>>

\* call i returns its FullComparisonResult
ReturnCompare(i) ==
    /\ i \in 1..Len(frames)
    /\ frames[i].state = "running"
    /\ frames[i].todo = <<>>
    /\ frames' = return_frame(frames, i)
    /\ UNCHANGED <<tolerances, normalize_types, hashOrder, expected, actual, result, pc,
                   mPattern, mPath, mMatched, mConfig, calls, filterCall, tableCall,
                   made, logging, records, logged_profiles, logger_level>>

NextInterleaved ==
    \/ \E p \in InterleavedPairs : BeginCompare(p[1], p[2])
    \/ \E i \in 1..MaxCalls : StepCompare(i)
    \/ \E i \in 1..MaxCalls : ReturnCompare(i)

SpecInterleaved == InitInterleaved /\ [][NextInterleaved]_vars

----------------------------------------------------------------------------
(* A comparison, then filter and format_table on what it returned *)

ReportLeaves == {VInt(10), VInt(11)}

ReportPairs ==
    (DictsOver(ReportLeaves) \X DictsOver(ReportLeaves))
    \cup {<<VList(<<VInt(10), VInt(10)>>), VList(<<VInt(10)>>)>>,
          <<VList(<<VInt(10), VInt(10), VInt(10)>>), VList(<<VInt(10), VInt(11), VInt(10)>>)>>,
          <<VDict(<<Entry(Ka, VInt(10))>>), VDict(<<Entry(Ka, VStr(<<"x">>))>>)>>,
          <<VInt(10), VList(<<VInt(10), VInt(10), VInt(10)>>)>>}

ReportRuleSets ==
    {<<>>, <<Rule(Kb, Optional)>>, <<Rule(Kb, Ignore)>>,
     <<Rule(Kb, ToleranceConfig(10, NoneNum))>>, <<Rule(Kb, ToleranceConfig(5, NoneNum))>>}

\* the detail levels that format_table is called with, one of them unknown
ReportDetails == Details \cup {"bogus"}

InitReport ==
    /\ tolerances \in ReportRuleSets
    /\ normalize_types = FALSE
    /\ hashOrder = <<Ka, Kb>>
    /\ CompareIdle
    /\ LogIdle
    /\ MatchIdle

\* filtered = result.filter(status_filter)
Filter(status_filter) ==
    /\ pc = "done" /\ ~result.raised
    /\ ~filterCall.called /\ ~tableCall.called
    /\ filterCall' = [called |-> TRUE, status_filter |-> status_filter,
                      returned |-> filter(result, status_filter)]
    /\ UNCHANGED <<tolerances, normalize_types, hashOrder, expected, actual, result, pc,
                   mPattern, mPath, mMatched, mConfig, calls, tableCall,
                   frames, made, logging, records, logged_profiles, logger_level>>

\* format_table(detail) of the result of compare, or of what filter
\* returned once filter has been called
FormatTable(detail) ==
    /\ pc = "done" /\ ~result.raised
    /\ ~tableCall.called
    /\ LET self == IF filterCall.called THEN filterCall.returned
                   ELSE ComparisonResult(result.fields)
       IN  tableCall' = [called |-> TRUE, self |-> self.fields, detail |-> detail,
                         returned |-> format_table(self, detail)]
    /\ UNCHANGED <<tolerances, normalize_types, hashOrder, expected, actual, result, pc,
                   mPattern, mPath, mMatched, mConfig, calls, filterCall,
                   frames, made, logging, records, logged_profiles, logger_level>>

NextReport ==
    \/ \E p \in ReportPairs : Compare(p[1], p[2])
    \/ \E status_filter \in ComparisonStatus : Filter(status_filter)
    \/ \E detail \in ReportDetails : FormatTable(detail)

SpecReport == InitReport /\ [][NextReport]_vars

----------------------------------------------------------------------------
(* A Comparer with a logging configuration: compare, format_table on the   *)
(* result, and auto_log called on the result with the Comparer's           *)
(* options.logging                                                         *)

LoggingConfigs ==
    {LoggingConfig(e, w, d, f) :
        e \in OptionalBool, w \in {"never", "always", "on_fail"}, d \in Details,
        f \in {"table", "json"}}

LoggingPairs ==
    {<<VDict(<<Entry(Ka, VInt(10)), Entry(Kb, VInt(10))>>),
       VDict(<<Entry(Ka, VInt(10)), Entry(Kb, VInt(11))>>)>>,
     <<VDict(<<Entry(Ka, VInt(10)), Entry(Kb, VInt(10))>>), VDict(<<Entry(Ka, VInt(10))>>)>>,
     <<VDict(<<Entry(Ka, VInt(10))>>), VDict(<<Entry(Ka, VInt(10))>>)>>,
     <<VDict(<<Entry(Ka, VInt(10))>>), VDict(<<Entry(Ka, VInt(11))>>)>>}

LoggingRuleSets ==
    {<<>>, <<Rule(Kb, Optional)>>, <<Rule(Kb, Ignore)>>, <<Rule(Kb, ToleranceConfig(10, NoneNum))>>}

InitLogging ==
    /\ tolerances \in LoggingRuleSets
    /\ normalize_types = FALSE
    /\ hashOrder = <<Ka, Kb>>
    /\ CompareIdle
    /\ MatchIdle
    /\ frames = NoFrames
    /\ made = NotMade
    /\ logging \in LoggingConfigs
    /\ records = <<>>
    /\ logged_profiles = <<>>
    /\ logger_level \in {DEBUG, INFO, WARNING}

\* result.auto_log(comparer.options.logging, ...): with_data says that
\* expected and actual are passed, profile_hash is the hash of the
\* tolerances passed (NoHash: none)
AutoLog(with_data, profile_hash) ==
    /\ pc \in {"done", "logged"} /\ ~result.raised
    /\ LET out == auto_log(result, logged_profiles, logging, logger_level, with_data,
                           profile_hash)
       IN  /\ records' = out.records
           /\ logged_profiles' = out.cache
    /\ pc' = "logged"
    /\ UNCHANGED <<tolerances, normalize_types, hashOrder, expected, actual, result,
                   mPattern, mPath, mMatched, mConfig, calls, filterCall, tableCall,
                   frames, made, logging, logger_level>>

NextLogging ==
    \/ \E p \in LoggingPairs : Compare(p[1], p[2])
    \/ \E detail \in Details : FormatTable(detail)
    \/ \E with_data \in BOOLEAN, profile_hash \in {NoHash, 1} : AutoLog(with_data, profile_hash)

SpecLogging == InitLogging /\ [][NextLogging]_vars

----------------------------------------------------------------------------
(* Many auto_log calls with debug logging on, each with the tolerances of  *)
(* some profile.  The hashes are numbered in the order in which the calls  *)
(* bring them up.  A call passes the next new hash, the newest one, one of *)
(* the two oldest ones, or the oldest one that the cache holds.            *)

MaxProfiles == MaxLoggedProfiles + 1   \* the profiles that the calls use

\* the greatest number of a sequence of numbers, 0 for the empty one
MaxOf(seq) ==
    IF seq = <<>> THEN 0
    ELSE seq[CHOOSE i \in 1..Len(seq) : \A j \in 1..Len(seq) : seq[j] <= seq[i]]

\* the hashes that the cache shows to have been logged at some time
Seen == 1..MaxOf(logged_profiles)

\* the hashes that the next call may pass
NextHashes ==
    LET newest == MaxOf(logged_profiles)
    IN  {h \in 1..Min(newest + 1, MaxProfiles) :
            h <= 2 \/ h >= newest \/ h = logged_profiles[1]}

CachePairs == {<<VDict(<<Entry(Ka, VInt(10))>>), VDict(<<Entry(Ka, VInt(11))>>)>>}

InitCache ==
    /\ tolerances = <<>>
    /\ normalize_types = FALSE
    /\ hashOrder = <<Ka, Kb>>
    /\ CompareIdle
    /\ MatchIdle
    /\ frames = NoFrames
    /\ made = NotMade
    /\ logging = LoggingConfig("True", "on_fail", "failures", "table")
    /\ records = <<>>
    /\ logged_profiles = <<>>
    /\ logger_level = DEBUG

NextCache ==
    \/ \E p \in CachePairs : Compare(p[1], p[2])
    \/ \E profile_hash \in NextHashes : AutoLog(TRUE, profile_hash)

SpecCache == InitCache /\ [][NextCache]_vars

----------------------------------------------------------------------------
(* Properties of a finished comparison *)

Returns == pc = "done" /\ ~result.raised

Fields == result.fields

\* the FieldResults of the result that carry the name of the path
At(path) == {i \in 1..Len(Fields) : Fields[i].name = NameOf(path)}

\* name is the name of a path below the path: one of its keys, items or
\* its length pseudo-field
Under(path, name) ==
    IF path = <<>> THEN name # NameOf(<<>>)
    ELSE /\ Len(name) > Len(path)
         /\ SubSeq(name, 1, Len(path)) = path
         /\ name[Len(path) + 1] \in {".", "["}

Below(path) == {i \in 1..Len(Fields) : Under(path, Fields[i].name)}

\* the calls of _compare_values of the finished comparison
Visited == Visits(Self, <<>>, expected, actual)

\* the rule resolved for the path
RuleAt(path) == get_field_config(tolerances, path)

\* C1: the result matches if and only if every FieldResult passed, and its
\* summary says 'passed' exactly when it counts 0 differences.
C1_MatchesIffAllPassed ==
    Returns =>
        /\ result.matches <=> (\A i \in 1..Len(Fields) : Fields[i].passed)
        /\ result.summary.word = "passed" <=> result.summary.differences = 0
        /\ result.summary.word \in {"passed", "failed"}

\* a comparison of two lists that fails on one item only
C1_Witness ==
    /\ Returns
    /\ ~result.matches
    /\ Len(Fields) >= 2
    /\ \E i \in 1..Len(Fields) : Fields[i].passed
    /\ result.summary.differences = 1

\* C2 (as claimed): where the rule resolved for a key or an item of the root
\* has ignore = true and the two sides differ there, a FieldResult IGNORED,
\* passed, carries that path and none lies below it.
ChildPaths ==
    IF expected.t = "dict" /\ actual.t = "dict"
    THEN {k : k \in DictKeys(expected) \cup DictKeys(actual)}
    ELSE IF expected.t = "list" /\ actual.t = "list"
    THEN {ItemPath(<<>>, i) :
          i \in 0..((IF Len(expected.items) >= Len(actual.items)
                     THEN Len(expected.items) ELSE Len(actual.items)) - 1)}
    ELSE {}

\* the value of one side under a path of ChildPaths, None where it has none
ChildValue(v, path) ==
    IF v.t = "dict" THEN DictGet(v, path)
    ELSE LET i == CHOOSE j \in 0..MaxLen + 1 : ItemPath(<<>>, j) = path
         IN  IF i < Len(v.items) THEN v.items[i + 1].v ELSE VNone

C2_IgnoredAlwaysReported ==
    (Returns /\ ~IsIgnore(RuleAt(<<>>))) =>
        \A path \in ChildPaths :
            (IsIgnore(RuleAt(path)) /\ ChildValue(expected, path) # ChildValue(actual, path)) =>
                /\ \E i \in At(path) : Fields[i].status = "ignored" /\ Fields[i].passed
                /\ Below(path) = {}

\* C3: a call of _compare_values with None on exactly one side, at a path
\* that is not ignored, appends one FieldResult, named by the path, and
\* goes no deeper: optional_missing and passed under a FieldConfig with
\* required = false, missing_required and failed (and so is the whole
\* comparison) otherwise; the same status with the sides exchanged.
C3_OneSidedAbsent ==
    Returns =>
        \A v \in Visited :
            (IsNone(v.exp) # IsNone(v.act) /\ ~IsIgnore(RuleAt(v.path))) =>
                LET r == compare_values(Self, v.path, v.exp, v.act)
                    swapped == compare_values(Self, v.path, v.act, v.exp)
                    optional == RuleAt(v.path).kind = "FieldConfig" /\ ~RuleAt(v.path).required
                IN  /\ ~r.raised /\ Len(r.fields) = 1
                    /\ r.fields[1].name = NameOf(v.path)
                    /\ r.fields[1].status = IF optional THEN "optional_missing"
                                            ELSE "missing_required"
                    /\ r.fields[1].passed = optional
                    /\ r.matches = optional
                    /\ ~optional => ~result.matches
                    /\ \E i \in At(v.path) : Fields[i] = r.fields[1]
                    /\ Len(swapped.fields) = 1
                    /\ swapped.fields[1].status = r.fields[1].status

\* a dict key whose value is a dict on one side and missing on the other,
\* under an optional rule
C3_Witness ==
    /\ Returns
    /\ \E v \in Visited :
        /\ v.path = Ka /\ v.exp.t = "dict" /\ v.exp.items # <<>> /\ IsNone(v.act)
        /\ RuleAt(v.path) = Optional
        /\ \E i \in At(v.path) : Fields[i].status = "optional_missing"

\* the FieldResults of fs that carry the name of the path, and those below it
AtIn(fs, path) == {i \in 1..Len(fs) : fs[i].name = NameOf(path)}
BelowIn(fs, path) == {i \in 1..Len(fs) : Under(path, fs[i].name)}

\* C7: the comparison of two lists of lengths m and n at a path P appends a
\* FieldResult P.length (array_length_mismatch, failed, expected m, actual
\* n) if and only if m # n; it compares the items below both lengths; for
\* every item that only expected has it appends one FieldResult P[i] with
\* actual None, optional_missing under a FieldConfig with required = false
\* and missing_required otherwise; for an item that only actual has it
\* appends none, at P[i] or below.  What it appends is in the result.
C7_ListLengths ==
    Returns =>
        \A v \in Visited :
            (v.exp.t = "list" /\ v.act.t = "list" /\ ~IsIgnore(RuleAt(v.path))) =>
                LET m == Len(v.exp.items)
                    n == Len(v.act.items)
                    fs == compare_values(Self, v.path, v.exp, v.act).fields
                    item(i) == ItemPath(v.path, i)
                    optional(i) == RuleAt(item(i)).kind = "FieldConfig"
                                   /\ ~RuleAt(item(i)).required
                IN  /\ \A j \in 1..Len(fs) : \E k \in 1..Len(Fields) : Fields[k] = fs[j]
                    /\ m # n =>
                          /\ Cardinality(AtIn(fs, LengthPath(v.path))) = 1
                          /\ \A i \in AtIn(fs, LengthPath(v.path)) :
                                /\ fs[i].status = "array_length_mismatch"
                                /\ ~fs[i].passed
                                /\ fs[i].expected = VInt(m)
                                /\ fs[i].actual = VInt(n)
                          /\ ~result.matches
                    /\ m = n => AtIn(fs, LengthPath(v.path)) = {}
                    /\ \A i \in 0..(Min(m, n) - 1) :
                          LET r == compare_values(Self, item(i), v.exp.items[i + 1].v,
                                                  v.act.items[i + 1].v)
                          IN  /\ [path |-> item(i), exp |-> v.exp.items[i + 1].v,
                                  act |-> v.act.items[i + 1].v] \in Visited
                              /\ \A j \in 1..Len(r.fields) :
                                    \E k \in AtIn(fs, item(i)) \cup BelowIn(fs, item(i)) :
                                        fs[k] = r.fields[j]
                              /\ Cardinality(AtIn(fs, item(i)) \cup BelowIn(fs, item(i)))
                                     = Len(r.fields)
                    /\ \A i \in n..(m - 1) :
                          /\ Cardinality(AtIn(fs, item(i))) = 1
                          /\ \A k \in AtIn(fs, item(i)) :
                                /\ fs[k].status = IF optional(i) THEN "optional_missing"
                                                  ELSE "missing_required"
                                /\ fs[k].passed = optional(i)
                                /\ fs[k].expected = v.exp.items[i + 1].v
                                /\ fs[k].actual = VNone
                          /\ BelowIn(fs, item(i)) = {}
                    /\ \A i \in m..(n - 1) : AtIn(fs, item(i)) \cup BelowIn(fs, item(i)) = {}

\* expected has two items and actual one, and the rule of the second item
\* makes it optional
C7_Witness ==
    /\ Returns
    /\ expected.t = "list" /\ actual.t = "list"
    /\ Len(expected.items) = 2 /\ Len(actual.items) = 1
    /\ RuleAt(ItemPath(<<>>, 1)) = Optional
    /\ \E i \in At(LengthPath(<<>>)) : Fields[i].status = "array_length_mismatch"
    /\ \E i \in At(ItemPath(<<>>, 1)) : Fields[i].status = "optional_missing"
    /\ \E i \in At(ItemPath(<<>>, 0)) : TRUE

\* a call of _compare_values that decides at its own path: the path is
\* ignored, a side is None, the types do not go together, or both are scalars
Terminal(v) ==
    \/ IsIgnore(RuleAt(v.path))
    \/ IsNone(v.exp) \/ IsNone(v.act)
    \/ ~types_compatible(normalize_types, v.exp, v.act)
    \/ ~(v.exp.t = "dict" /\ v.act.t = "dict") /\ ~(v.exp.t = "list" /\ v.act.t = "list")

\* the lists that _compare_lists was called with
ListVisits ==
    {v \in Visited : ~Terminal(v) /\ v.exp.t = "list" /\ v.act.t = "list"}

\* the paths at which the traversal decides: the terminal calls and the
\* items of a list that actual lacks
TerminalPaths ==
    {v.path : v \in {w \in Visited : Terminal(w)}}
    \cup UNION {{ItemPath(v.path, i) : i \in Len(v.act.items)..(Len(v.exp.items) - 1)} :
                v \in ListVisits}

\* the length pseudo-fields of the lists whose lengths differ
LengthPaths ==
    {LengthPath(v.path) : v \in {w \in ListVisits : Len(w.exp.items) # Len(w.act.items)}}

\* C15 (as claimed): every path at which the traversal decides has exactly
\* one FieldResult, no two FieldResults carry the same name, and every
\* other FieldResult is the length pseudo-field of a list.
C15_OneResultPerPath ==
    Returns =>
        /\ \A p \in TerminalPaths : Cardinality(At(p)) = 1
        /\ \A i, j \in 1..Len(Fields) : Fields[i].name = Fields[j].name => i = j
        /\ \A i \in 1..Len(Fields) :
              \E p \in TerminalPaths \cup LengthPaths : Fields[i].name = NameOf(p)

\* the positions of the keys of the rule set that decide the rule of a path
\* before position i does: a key equal to the path, or an earlier key whose
\* pattern matches it
Preceding(path, i) ==
    {j \in 1..Len(tolerances) :
        j # i /\ (tolerances[j].key = path
                  \/ (j < i /\ path_matches_pattern(path, tolerances[j].key)))}

\* C11: where the rule set holds a tolerance rule under the key 'a.*.b' that
\* no other key precedes, that rule is the rule resolved for the path
\* a[i].b of every item i of a list at a, and two unequal numbers there are
\* checked against its tolerance: outside_tolerance (failed) when their
\* difference exceeds it, in_tolerance (passed) otherwise, never
\* value_mismatch.
C11_ListItemWildcard ==
    Returns =>
        \A v \in Visited : \A i \in 0..MaxLen : \A k \in 1..Len(tolerances) :
            (/\ v.path = KeyPath(ItemPath(Ka, i), Kb)
             /\ tolerances[k].key = ItemsB
             /\ tolerances[k].config.kind = "ToleranceConfig"
             /\ Preceding(v.path, k) = {}
             /\ is_numerical(v.exp) /\ is_numerical(v.act) /\ v.exp.n # v.act.n
             /\ types_compatible(normalize_types, v.exp, v.act)) =>
                LET cfg == tolerances[k].config
                    within == 100 * Abs(v.exp.n - v.act.n) <= Abs(v.exp.n * cfg.percentage)
                IN  /\ RuleAt(v.path) = cfg
                    /\ Cardinality(At(v.path)) = 1
                    /\ \A f \in At(v.path) :
                          /\ Fields[f].status = IF within THEN "in_tolerance"
                                                ELSE "outside_tolerance"
                          /\ Fields[f].passed = within
                          /\ Fields[f].tolerance_applied =
                                 [type |-> "%", value |-> cfg.percentage]
                    /\ ~within => ~result.matches

\* a list of two items at a under 'a.*.b' with 5%: b is 10 in both first
\* items, 10 against 11 in the second ones
C11_Witness ==
    /\ Returns
    /\ tolerances = <<Rule(ItemsB, ToleranceConfig(5, NoneNum))>>
    /\ \E f \in At(KeyPath(ItemPath(Ka, 0), Kb)) : Fields[f].status = "identical"
    /\ \E f \in At(KeyPath(ItemPath(Ka, 1), Kb)) : Fields[f].status = "outside_tolerance"
    /\ Len(Fields) = 2

----------------------------------------------------------------------------
(* Properties of the comparison of two numbers at the root *)

\* two unequal numbers of compatible types reached _compare_numerical_with_tolerance
UnequalNumbers ==
    /\ Returns
    /\ expected.t \in {"int", "float"} /\ actual.t \in {"int", "float"}
    /\ expected.t = actual.t \/ normalize_types
    /\ expected.n # actual.n
    /\ ~(RuleAt(<<>>).kind = "FieldConfig" /\ RuleAt(<<>>).ignore)

\* the rule of the root is a tolerance rule with a tolerance set
HasTolerance ==
    /\ RuleAt(<<>>).kind = "ToleranceConfig"
    /\ RuleAt(<<>>).percentage # NoneNum \/ RuleAt(<<>>).absolute # NoneNum

\* 100 times the effective tolerance T of the claims: the one that is set,
\* the larger when both are
EffectiveTolerance100 ==
    LET p == RuleAt(<<>>).percentage
        a == RuleAt(<<>>).absolute
        pt == IF expected.n * p < 0 THEN -(expected.n * p) ELSE expected.n * p
    IN  IF a = NoneNum THEN pt
        ELSE IF p = NoneNum THEN 100 * a
        ELSE IF pt >= 100 * a THEN pt ELSE 100 * a

\* the label of the tolerance used: the percentage unless the absolute
\* tolerance is the only one or the strictly larger one
EffectiveLabel ==
    LET p == RuleAt(<<>>).percentage
        a == RuleAt(<<>>).absolute
        pt == IF expected.n * p < 0 THEN -(expected.n * p) ELSE expected.n * p
    IN  IF p # NoneNum /\ (a = NoneNum \/ pt >= 100 * a)
        THEN [type |-> "%", value |-> p]
        ELSE [type |-> "absolute", value |-> a]

Difference100 ==
    IF expected.n >= actual.n THEN 100 * (expected.n - actual.n)
    ELSE 100 * (actual.n - expected.n)

\* C4: two unequal numbers under a tolerance rule are in_tolerance and
\* passed if and only if |expected - actual| <= T, outside_tolerance and
\* failed otherwise; the boundary passes (10% of 200 against 220); and
\* tolerance_applied is the label of the tolerance used.
C4_ToleranceBoundary ==
    (UnequalNumbers /\ HasTolerance) =>
        /\ Len(Fields) = 1
        /\ IF Difference100 <= EffectiveTolerance100
           THEN Fields[1].status = "in_tolerance" /\ Fields[1].passed /\ result.matches
           ELSE Fields[1].status = "outside_tolerance" /\ ~Fields[1].passed
                /\ ~result.matches
        /\ Fields[1].tolerance_applied = EffectiveLabel
        /\ (expected = VInt(200) /\ actual = VInt(220)
            /\ RuleAt(<<>>) = ToleranceConfig(10, NoneNum))
           => Fields[1].status = "in_tolerance"

\* percentage = 10, expected = 200, actual = 220: the difference is the tolerance
C4_Witness ==
    /\ UnequalNumbers
    /\ expected = VInt(200) /\ actual = VInt(220)
    /\ tolerances = <<Rule(<<>>, ToleranceConfig(10, NoneNum))>>
    /\ Fields[1].status = "in_tolerance"
    /\ Fields[1].tolerance_applied = [type |-> "%", value |-> 10]

\* C5: under a rule with both a percentage and an absolute tolerance the
\* larger of the two decides (the label is the percentage on a tie), so the
\* field passes if and only if it passes under the percentage alone or
\* under the absolute tolerance alone.
C5_LargerToleranceWins ==
    (UnequalNumbers /\ RuleAt(<<>>).kind = "ToleranceConfig"
     /\ RuleAt(<<>>).percentage # NoneNum /\ RuleAt(<<>>).absolute # NoneNum) =>
        LET p == RuleAt(<<>>).percentage
            a == RuleAt(<<>>).absolute
            pt == IF expected.n * p < 0 THEN -(expected.n * p) ELSE expected.n * p
            percentage_only ==
                numerical_with_config(<<>>, expected, actual, ToleranceConfig(p, NoneNum))
            absolute_only ==
                numerical_with_config(<<>>, expected, actual, ToleranceConfig(NoneNum, a))
        IN  /\ Len(Fields) = 1
            /\ Fields[1].passed <=>
                   (Difference100 <= pt \/ Difference100 <= 100 * a)
            /\ Fields[1].tolerance_applied =
                   IF pt >= 100 * a THEN [type |-> "%", value |-> p]
                   ELSE [type |-> "absolute", value |-> a]
            /\ (~percentage_only.raised /\ ~absolute_only.raised) =>
                   (Fields[1].passed <=>
                        (percentage_only.fields[1].passed \/ absolute_only.fields[1].passed))

\* percentage = 10 and absolute = 2 on expected 15.0, actual 13.0: 1.5 < 2.0,
\* the absolute tolerance is used and the difference 2.0 passes
C5_Witness ==
    /\ UnequalNumbers
    /\ expected = VFloat(15) /\ actual = VFloat(13)
    /\ tolerances = <<Rule(<<>>, ToleranceConfig(10, 2))>>
    /\ Fields[1].status = "in_tolerance"
    /\ Fields[1].tolerance_applied = [type |-> "absolute", value |-> 2]

\* C6: two values of different types, neither None, at a path that is not
\* ignored: one type_mismatch FieldResult, failed, with the two type names
\* and nothing below; except that with normalize_types an int and a float
\* are compared as numbers: identical when equal, else checked against the
\* tolerance (value_mismatch when there is none).
C6_TypeMismatch ==
    (Returns /\ ~IsNone(expected) /\ ~IsNone(actual) /\ expected.t # actual.t
     /\ ~(RuleAt(<<>>).kind = "FieldConfig" /\ RuleAt(<<>>).ignore)) =>
        /\ Len(Fields) = 1
        /\ IF normalize_types /\ {expected.t, actual.t} = {"int", "float"}
           THEN IF expected.n = actual.n
                THEN Fields[1].status = "identical" /\ Fields[1].passed /\ result.matches
                ELSE IF HasTolerance
                THEN Fields[1].status = IF Difference100 <= EffectiveTolerance100
                                        THEN "in_tolerance" ELSE "outside_tolerance"
                ELSE Fields[1].status = "value_mismatch"
           ELSE /\ Fields[1].status = "type_mismatch"
                /\ ~Fields[1].passed
                /\ ~result.matches
                /\ Fields[1].name = NameOf(<<>>)
                /\ Fields[1].expected_type = expected.t
                /\ Fields[1].actual_type = actual.t

\* the integer 9 against the float 9.0 without normalize_types
C6_Witness ==
    /\ Returns
    /\ ~normalize_types
    /\ expected = VInt(9) /\ actual = VFloat(9)
    /\ Fields[1].status = "type_mismatch"
    /\ Fields[1].expected_type = "int" /\ Fields[1].actual_type = "float"

\* two unequal scalars of one type that are not numbers reached the text
\* validation of _compare_primitives under a rule with text_validation
TextValidated ==
    /\ Returns
    /\ expected.t = actual.t /\ expected.t \in {"str", "bool"}
    /\ ~PyEq(expected, actual)
    /\ RuleAt(<<>>).kind = "FieldConfig"
    /\ RuleAt(<<>>).text_validation /\ ~RuleAt(<<>>).ignore

\* C12 (as claimed): such a field passes (in_tolerance) if and only if
\* actual is not None and its string form holds a character that is not
\* white space, and is outside_tolerance and failed otherwise, whatever
\* expected is; the boolean False, whose string form is 'False', passes.
C12_TextValidation ==
    TextValidated =>
        LET content == ~IsNone(actual) /\ \E i \in 1..Len(PyStr(actual)) : PyStr(actual)[i] # " "
        IN  /\ Len(Fields) = 1
            /\ Fields[1].passed = content
            /\ Fields[1].status = IF content THEN "in_tolerance" ELSE "outside_tolerance"
            /\ result.matches = content

\* C13 (as claimed): under the Comparer created from a profile with
\* text_validation for the field a, whenever expected holds a string that
\* is not empty there and actual is empty, white space only, None or
\* missing, a FieldResult of a has not passed and the result does not match.
C13_EmptyTextFails ==
    (/\ Returns
     /\ tolerances = create(<<[key |-> Ka, settings |-> TextOnly]>>)
     /\ expected.t = "dict" /\ actual.t = "dict"
     /\ DictGet(expected, Ka).t = "str" /\ DictGet(expected, Ka).s # <<>>
     /\ \/ IsNone(DictGet(actual, Ka))
        \/ DictGet(actual, Ka).t = "str" /\ Strip(DictGet(actual, Ka).s) = <<>>) =>
        /\ \E i \in At(Ka) : ~Fields[i].passed
        /\ ~result.matches

\* C14: two unequal numbers at a path with no rule, with a rule that is not
\* a tolerance rule, or with a tolerance rule that sets neither percentage
\* nor absolute, give exactly one FieldResult, value_mismatch and failed;
\* two equal numbers are identical and passed whatever the rule is.
C14_NoToleranceIsMismatch ==
    /\ (UnequalNumbers /\ ~HasTolerance) =>
           /\ Len(Fields) = 1
           /\ Fields[1].name = NameOf(<<>>)
           /\ Fields[1].status = "value_mismatch"
           /\ ~Fields[1].passed
           /\ Fields[1].tolerance_applied = NoTolerance
           /\ ~result.matches
           /\ result.summary.differences = 1
    /\ (/\ Returns
        /\ is_numerical(expected) /\ is_numerical(actual)
        /\ expected.t = actual.t \/ normalize_types
        /\ expected.n = actual.n
        /\ ~IsIgnore(RuleAt(<<>>))) =>
           /\ Len(Fields) = 1
           /\ Fields[1].status = "identical"
           /\ Fields[1].passed
           /\ result.matches

\* 10 against 11 under a rule that asks for text validation only
C14_Witness ==
    /\ UnequalNumbers
    /\ expected = VInt(10) /\ actual = VInt(11)
    /\ tolerances = <<Rule(<<>>, TextValidation)>>
    /\ Fields[1].status = "value_mismatch"

\* C8 (as claimed): compare returns a result and raises no exception, for
\* every pair of values and every rule set.
C8_NeverRaises == pc = "done" => ~result.raised

----------------------------------------------------------------------------
(* Properties of filter and format_table *)

\* the positions of the fields with a status
WithStatus(fields, status) == {i \in 1..Len(fields) : fields[i].status = status}

\* xs is fields restricted to the positions of keep, in the order of fields
RECURSIVE Restriction(_, _, _)
Restriction(fields, keep, i) ==
    IF i > Len(fields) THEN <<>>
    ELSE (IF i \in keep THEN <<fields[i]>> ELSE <<>>) \o Restriction(fields, keep, i + 1)

\* C16: filter(s) returns a plain ComparisonResult, without matches or
\* summary, whose fields are the fields of the result with status s in their
\* order; the result is as it was; and every field of the result is in the
\* filter of exactly one status.
C16_FilterByStatus ==
    filterCall.called =>
        LET s == filterCall.status_filter
            r == filterCall.returned
        IN  /\ DOMAIN r = {"fields"}
            /\ r.fields = Restriction(Fields, WithStatus(Fields, s), 1)
            /\ result = calls[Len(calls)].result
            /\ \A i \in 1..Len(Fields) :
                  Cardinality({t \in ComparisonStatus :
                      \E j \in 1..Len(filter(result, t).fields) :
                          filter(result, t).fields[j] = Fields[i]}) = 1

\* of three fields the two that are identical are returned, the first and
\* the third
C16_Witness ==
    /\ filterCall.called
    /\ filterCall.status_filter = "identical"
    /\ Len(Fields) = 3
    /\ WithStatus(Fields, "identical") = {1, 3}
    /\ filterCall.returned.fields = <<Fields[1], Fields[3]>>

\* the rows of the fields at the positions of keep, in the order of fields
RowsOf(fields, keep) ==
    LET kept == Restriction(fields, keep, 1)
    IN  [i \in 1..Len(kept) |-> Row(kept[i])]

\* the positions of the fields whose status is none of the statuses
WithoutStatus(fields, statuses) ==
    {i \in 1..Len(fields) : fields[i].status \notin statuses}

\* C17 (as claimed): format_table('failures') has no row for a field that is
\* identical, in_tolerance, ignored or optional_missing, and a row for
\* every other field.
C17_FailuresTable ==
    (tableCall.called /\ tableCall.detail = "failures") =>
        /\ ~tableCall.returned.raised
        /\ tableCall.returned.rows =
               RowsOf(tableCall.self,
                      WithoutStatus(tableCall.self, {"identical", "in_tolerance", "ignored",
                                                     "optional_missing"}))

\* C18: format_table('differences') has a row for exactly the fields that
\* are neither identical nor ignored, format_table('all') a row for every
\* field, in the order of the fields; and when no field is selected the
\* output is a message, never a table without rows.
C18_DifferencesAndAll ==
    (tableCall.called /\ tableCall.detail \in {"differences", "all"}) =>
        LET out == tableCall.returned
            keep == IF tableCall.detail = "all" THEN 1..Len(tableCall.self)
                    ELSE WithoutStatus(tableCall.self, {"identical", "ignored"})
        IN  /\ ~out.raised
            /\ out.rows = RowsOf(tableCall.self, keep)
            /\ IF keep = {}
               THEN out.text \in {"No fields to display",
                                  "No fields match the specified detail level"}
               ELSE out.text = "table" /\ Len(out.rows) = Cardinality(keep)

\* of the fields a (identical) and b (within 10%) the differences are b alone
C18_Witness ==
    /\ tableCall.called /\ tableCall.detail = "differences"
    /\ ~filterCall.called
    /\ Len(tableCall.self) = 2
    /\ tableCall.self[1].status = "identical"
    /\ tableCall.self[2].status = "in_tolerance"
    /\ Len(tableCall.returned.rows) = 1
    /\ tableCall.returned.rows[1].field_name_str = Kb
    /\ tableCall.returned.rows[1].simple_status = "tolerated"
    /\ tableCall.returned.rows[1].reason_str.word = "<"

\* C19 (as claimed): format_table with a detail that is not 'failures',
\* 'differences' or 'all' raises, on every result, one without fields
\* included.
C19_UnknownDetailRaises ==
    (tableCall.called /\ tableCall.detail \notin Details) => tableCall.returned.raised

----------------------------------------------------------------------------
(* _path_matches_pattern on its own: every pattern and path up to a length *)

PatternChars == {"a", ".", "*", "[", "]"}
Patterns == SeqsUpTo(PatternChars, MaxPatLen)
Paths == SeqsUpTo(PatternChars, MaxPathLen)

InitPattern ==
    /\ mPattern \in Patterns
    /\ mPath = Unused
    /\ mMatched = FALSE
    /\ mConfig = NoConfig
    /\ tolerances = <<>>
    /\ normalize_types = FALSE
    /\ hashOrder = <<Ka, Kb>>
    /\ CompareIdle
    /\ LogIdle

\* self._path_matches_pattern(path, pattern)
PathMatchesPattern(path) ==
    /\ mPath = Unused
    /\ mPath' = path
    /\ mMatched' = path_matches_pattern(path, mPattern)
    /\ UNCHANGED <<mPattern, mConfig, cmpVars>>

NextPattern == \E path \in Paths : PathMatchesPattern(path)

SpecPattern == InitPattern /\ [][NextPattern]_vars

\* p can be obtained from K by replacing each '*' with some string
RECURSIVE GlobMatch(_, _)
GlobMatch(K, p) ==
    IF K = <<>> THEN p = <<>>
    ELSE IF Head(K) = "*"
         THEN \E n \in 0..Len(p) : GlobMatch(Tail(K), SubSeq(p, n + 1, Len(p)))
         ELSE p # <<>> /\ Head(p) = Head(K) /\ GlobMatch(Tail(K), Tail(p))

RECURSIVE DotStarTokens(_)
DotStarTokens(K) ==
    IF K = <<>> THEN <<>>
    ELSE IF Len(K) >= 2 /\ K[1] = "." /\ K[2] = "*"
         THEN <<"W">> \o DotStarTokens(SubSeq(K, 3, Len(K)))
         ELSE <<Head(K)>> \o DotStarTokens(Tail(K))

\* a key of '.*' wildcards, letters and dots: no other '*' and no bracket
PlainKey(K) ==
    \A i \in 1..Len(DotStarTokens(K)) : DotStarTokens(K)[i] \notin {"*", "[", "]"}

\* p can be obtained from the tokens by replacing each wildcard with some string
RECURSIVE TokensMatch(_, _)
TokensMatch(ts, p) ==
    IF ts = <<>> THEN p = <<>>
    ELSE IF Head(ts) = "W"
         THEN \E n \in 0..Len(p) : TokensMatch(Tail(ts), SubSeq(p, n + 1, Len(p)))
         ELSE p # <<>> /\ Head(p) = Head(ts) /\ TokensMatch(Tail(ts), Tail(p))

----------------------------------------------------------------------------
(* _get_field_config on its own: rule sets of up to MaxRules keys *)

LookupKeys == {Ka, <<"a", ".", "*">>, <<".", "*">>, <<"a", "[", "0", "]">>,
               <<"a", ".", "b">>, <<"*">>}
LookupConfigs == {Required, Optional, Ignore}
LookupPaths == {<<>>, Ka, Kb, <<"a", ".", "b">>, <<"a", "[", "0", "]">>, <<"a", "0">>}

\* a dict holds a key once
DistinctKeys(tols) == \A i, j \in 1..Len(tols) : tols[i].key = tols[j].key => i = j

LookupRuleSets ==
    {tols \in SeqsUpTo({Rule(k, c) : k \in LookupKeys, c \in LookupConfigs}, MaxRules) :
        DistinctKeys(tols)}

InitLookup ==
    /\ tolerances \in LookupRuleSets
    /\ normalize_types = FALSE
    /\ hashOrder = <<Ka, Kb>>
    /\ CompareIdle
    /\ LogIdle
    /\ MatchIdle

\* self._get_field_config(path)
GetFieldConfig(path) ==
    /\ mPath = Unused
    /\ mPath' = path
    /\ mConfig' = get_field_config(tolerances, path)
    /\ UNCHANGED <<mPattern, mMatched, cmpVars>>

NextLookup == \E path \in LookupPaths : GetFieldConfig(path)

SpecLookup == InitLookup /\ [][NextLookup]_vars

\* C9: the rule of a path is the rule stored under the key equal to the
\* path when there is one, wherever it stands and whatever wildcard also
\* matches; otherwise the rule of the first key, in insertion order, whose
\* pattern matches the path; otherwise none.
C9_ExactThenFirstPattern ==
    mPath # Unused =>
        LET exact == {i \in 1..Len(tolerances) : tolerances[i].key = mPath}
            matching == {i \in 1..Len(tolerances) :
                             path_matches_pattern(mPath, tolerances[i].key)}
        IN  IF exact # {}
            THEN \A i \in exact : mConfig = tolerances[i].config
            ELSE IF matching # {}
            THEN \E i \in matching :
                    /\ \A j \in matching : i <= j
                    /\ mConfig = tolerances[i].config
            ELSE mConfig = NoConfig

\* the key equal to the path stands behind a wildcard that matches the
\* path too, and holds another rule
C9_Witness ==
    /\ mPath = Ka
    /\ Len(tolerances) = 2
    /\ tolerances[1].key = <<"a", ".", "*">>
    /\ tolerances[2].key = Ka
    /\ tolerances[1].config # tolerances[2].config
    /\ mConfig = tolerances[2].config

----------------------------------------------------------------------------
(* Interleaved calls *)

\* C21: a compare call that ran interleaved with another call on the same
\* Comparer returns exactly the result that the call returns when it runs
\* alone: its fields, its matches and its summary are those of compare on
\* its own arguments, whatever the other call did in between
C21_InterleavedSameAsAlone ==
    \A i \in 1..Len(frames) :
        frames[i].state = "returned" =>
            frames[i].result = compare(Self, frames[i].expected, frames[i].actual)

\* two calls with different arguments have both returned, each made a step
\* while the other was in the middle of its traversal, and each reported
\* fields
C21_Witness ==
    /\ Len(frames) = 2
    /\ \A i \in 1..2 : /\ frames[i].state = "returned"
                       /\ frames[i].overlapped
                       /\ ~frames[i].result.raised
                       /\ Len(frames[i].result.fields) >= 2
    /\ frames[1].result.fields # frames[2].result.fields
    /\ frames[1].result.matches # frames[2].result.matches

----------------------------------------------------------------------------
(* Construction of settings and rules *)

HasTolerance22(fs) == fs.percentage # NoneNum \/ fs.absolute # NoneNum
HasBehaviour(fs) == fs.required # "None" \/ fs.ignore # "None" \/ fs.text_validation # "None"
SettingsMade == made.stage # "none" /\ made.kind = "FieldSettings"
NoComparerMade == made.stage = "raised" /\ tolerances = <<>> /\ pc = "idle"

OptionalTolerance ==
    /\ made.stage = "comparer" /\ made.kind = "FieldSettings"
    /\ HasTolerance22(made.args) /\ made.args.required = "False"

\* C23: a field configured with a tolerance and required=False is accepted;
\* when it is missing on one side the Comparer created from the profile
\* reports OPTIONAL_MISSING with passed=true for it, and when it is present
\* on both sides with unequal numbers it is tolerance-checked
C23_OptionalWithTolerance ==
    /\ (SettingsMade /\ HasTolerance22(made.args) /\ made.args.required = "False"
        /\ made.args.ignore = "None" /\ made.args.text_validation = "None")
           => made.stage # "raised"
    /\ (OptionalTolerance /\ pc = "done") =>
          LET e == DictGet(expected, Ka)
              a == DictGet(actual, Ka)
          IN  /\ (IsNone(e) # IsNone(a)) =>
                    \E i \in 1..Len(result.fields) :
                        /\ result.fields[i].name = Ka
                        /\ result.fields[i].status = "optional_missing"
                        /\ result.fields[i].passed
              /\ (is_numerical(e) /\ is_numerical(a) /\ e.n # a.n) =>
                    \E i \in 1..Len(result.fields) :
                        /\ result.fields[i].name = Ka
                        /\ result.fields[i].status \in {"in_tolerance", "outside_tolerance"}

ConfigMade == made.stage # "none" /\ made.kind = "FieldConfig"

\* C24: FieldConfig(...) raises exactly when ignore and text_validation are
\* both true, or when ignore or text_validation is true while required is
\* true; every other construction succeeds
C24_FieldConfigExclusive ==
    ConfigMade =>
        LET required == FieldValue(made.args, "required")
            ignore == FieldValue(made.args, "ignore")
            text_validation == FieldValue(made.args, "text_validation")
        IN  (made.stage = "raised") <=>
                \/ (ignore /\ text_validation)
                \/ ((ignore \/ text_validation) /\ required)

----------------------------------------------------------------------------
(* Logging *)

\* a record 'Comparison Result' with the table or the JSON text is among
\* the records of the latest call
ResultLogged ==
    \E i \in 1..Len(records) :
        records[i].msg \in {"Comparison Result", "Comparison Result (JSON)"}

\* C25: with logging enabled=True and the logger enabled at INFO, a compare
\* call emits a 'Comparison Result' record always under when='always', if
\* and only if matches is false under when='on_fail', and never under
\* when='never' or with enabled=False
C25_CompareLogs ==
    (pc = "done" /\ ~result.raised /\ isEnabledFor(logger_level, INFO)) =>
        /\ (logging.enabled = "True" /\ logging.when = "always") => ResultLogged
        /\ (logging.enabled = "True" /\ logging.when = "on_fail") =>
               (ResultLogged <=> ~result.matches)
        /\ (logging.enabled = "False" \/ logging.when = "never") => ~ResultLogged

\* C27: the fields that auto_log writes with format=JSON are the fields
\* that format_table shows for the same result at the same detail level:
\* the rows of the JSON's fields are the rows of the table
C27_JsonSameAsTable ==
    \A i \in 1..Len(records) :
        (/\ records[i].msg = "Comparison Result (JSON)"
         /\ tableCall.called /\ ~tableCall.returned.raised
         /\ tableCall.detail = logging.detail
         /\ tableCall.self = result.fields) =>
            [j \in 1..Len(records[i].output.rows) |-> Row(records[i].output.rows[j])]
                = tableCall.returned.rows

IsBody(rec) == rec.msg = "Comparison profile (JSON)"
IsReference(rec) == rec.msg = "Comparison profile - details logged previously"
Cached(cache) == {cache[i] : i \in 1..Len(cache)}

\* the cache holds at most 100 entries and no hash twice
CacheBounded(cache) ==
    /\ Len(cache) <= 100
    /\ \A i, j \in 1..Len(cache) : cache[i] = cache[j] => i = j

\* C28: the body of a profile is logged only the first time its hash is
\* seen, every later call with that hash logs only the reference, however
\* many other profiles were logged in between; the cache never holds more
\* than 100 entries nor a hash twice
C28_BodyOnlyOnce ==
    [][/\ \A i \in 1..Len(records') : IsBody(records'[i]) => records'[i].hash \notin Seen
       /\ CacheBounded(logged_profiles')]_vars

\* C28 as the code has it: a call logs the body of the profile exactly
\* when the hash is not in the cache, and the reference exactly when it is;
\* a logged body enters the cache as its newest entry and, the cache being
\* full, drops the oldest one, so that the cache is the (at most 100)
\* hashes whose bodies were logged last; the cache never holds more than
\* 100 entries nor a hash twice
C28_BodyWhenNotCached ==
    [][/\ \A i \in 1..Len(records') :
              records'[i].hash # NoHash =>
                  /\ IsBody(records'[i]) <=> records'[i].hash \notin Cached(logged_profiles)
                  /\ IsReference(records'[i]) <=> records'[i].hash \in Cached(logged_profiles)
                  /\ IsBody(records'[i]) =>
                         /\ logged_profiles'[Len(logged_profiles')] = records'[i].hash
                         /\ \A h \in Cached(logged_profiles) :
                                (h \in Cached(logged_profiles')) <=>
                                    (Len(logged_profiles) < 100 \/ h # logged_profiles[1])
                  /\ IsReference(records'[i]) => logged_profiles' = logged_profiles
       /\ CacheBounded(logged_profiles')]_vars

\* the body of a profile was logged a second time: the cache is full, its
\* newest entry is a hash older than others in it, and the latest call
\* logged the body of that hash
C28_Witness ==
    /\ Len(logged_profiles) = 100
    /\ logged_profiles[100] < MaxOf(logged_profiles)
    /\ \E i \in 1..Len(records) :
           IsBody(records[i]) /\ records[i].hash = logged_profiles[100]

----------------------------------------------------------------------------
(* Lists of different lengths *)

\* C26: when the traversal reaches two lists of different lengths at a
\* path that is not ignored, the result does not match, whatever rules
\* apply to the items: an item that actual lacks and whose rule has
\* required = false is reported as optional_missing with passed = true,
\* and the comparison fails all the same
C26_LengthMismatchFails ==
    Returns =>
        \A v \in ListVisits :
            Len(v.exp.items) # Len(v.act.items) =>
                /\ ~result.matches
                /\ result.summary.word = "failed"
                /\ \A i \in Len(v.act.items)..(Len(v.exp.items) - 1) :
                       IsOptional(RuleAt(ItemPath(v.path, i))) =>
                           /\ Cardinality(At(ItemPath(v.path, i))) = 1
                           /\ \A k \in At(ItemPath(v.path, i)) :
                                  Fields[k].status = "optional_missing" /\ Fields[k].passed

\* expected has an item more than actual, the item is optional and reported
\* as optional_missing, and the length is the only field that failed
C26_Witness ==
    /\ Returns /\ ~result.matches
    /\ \E v \in ListVisits :
           /\ Len(v.exp.items) = Len(v.act.items) + 1
           /\ IsOptional(RuleAt(ItemPath(v.path, Len(v.act.items))))
           /\ \E k \in At(ItemPath(v.path, Len(v.act.items))) :
                  Fields[k].status = "optional_missing"
    /\ \A k \in 1..Len(Fields) :
           ~Fields[k].passed => Fields[k].status = "array_length_mismatch"

----------------------------------------------------------------------------
(* passed and status *)

PassStates == {"identical", "in_tolerance", "ignored", "optional_missing"}
FailStates == {"outside_tolerance", "missing_required", "type_mismatch", "value_mismatch",
               "array_length_mismatch"}

\* C29: every FieldResult of a result of compare has passed = true exactly
\* when its status is identical, in_tolerance, ignored or optional_missing,
\* and passed = false exactly when its status is outside_tolerance,
\* missing_required, type_mismatch, value_mismatch or
\* array_length_mismatch; the status object_missing is never produced
C29_PassedIffPassState ==
    Returns =>
        \A k \in 1..Len(Fields) :
            /\ Fields[k].passed <=> Fields[k].status \in PassStates
            /\ ~Fields[k].passed <=> Fields[k].status \in FailStates
            /\ Fields[k].status # "object_missing"

\* a result with an ignored field, a field that passed otherwise and a
\* field that failed
C29_Witness ==
    /\ Returns
    /\ \E k \in 1..Len(Fields) : Fields[k].status = "ignored" /\ Fields[k].passed
    /\ \E k \in 1..Len(Fields) : Fields[k].status \in PassStates \ {"ignored"}
    /\ \E k \in 1..Len(Fields) : Fields[k].status \in FailStates /\ ~Fields[k].passed

----------------------------------------------------------------------------
(* Keys without a wildcard *)

HasStar(key) == \E i \in 1..Len(key) : key[i] = "*"

\* C30: a rule key that contains no '*' applies only to the path equal to
\* the key: for a path different from the key, _get_field_config never
\* returns the rule that only this key holds
C30_PlainKeyOnlyItsPath ==
    mPath # Unused =>
        \A i \in 1..Len(tolerances) :
            (/\ ~HasStar(tolerances[i].key)
             /\ tolerances[i].key # mPath
             /\ \A j \in 1..Len(tolerances) :
                    tolerances[j].config = tolerances[i].config => j = i) =>
                mConfig # tolerances[i].config

====
